---- MODULE Spec2Model ----
(***************************************************************************)
(* Fraud / anomaly indicator engine of the stock analyzer.                 *)
(*                                                                         *)
(* Two copies of the engine exist in the source:                           *)
(*   - calculate_fraud_indicators    (src/stock_analyzer-enhanced.py)      *)
(*   - fraud_detection_agent_endpoint (src/stock_analyzer_agents_api.py)   *)
(* Both are modelled, each from its own code.                              *)
(*                                                                         *)
(* Representation of values                                                *)
(*   - a text (Python str) is a sequence of one-character strings, so that *)
(*     str.replace and float() are computed, not assumed;                  *)
(*   - a Python float is a decimal fixed-point integer.  Volumes are kept  *)
(*     in whole units, avg_volume in 1/100, prices, ratios and percentages *)
(*     in 1/1000.  A division keeps the digits of its result's unit and    *)
(*     truncates the rest (the float rounds at 2^-53 instead);             *)
(*   - a Python dict is a function whose DOMAIN is the set of its keys;    *)
(*   - Python's None and a list are told apart by the field "kind".        *)
(* Python indices are 0-based: historical_data[i] is rows[i + 1].          *)
(***************************************************************************)
EXTENDS Integers, Sequences, FiniteSets, TLC

\* ---------------------------------------------------------------- bounds
\* longest table the data source delivers
MaxDays == 25
\* number of rows of a table that differ from the regular table
MaxEdits == 2

\* ------------------------------------------------------ program constants
\* minimum number of observations
MinDays == 20
\* observations 0..BaselineSkip-1 are kept out of the baselines; a finding
\* at an index below it is "recent"
BaselineSkip == 5
\* minimum number of baseline volumes, and of daily returns
MinSamples == 10
\* number of most recent observations / returns that are tested
RecentWindow == 10
\* a volume-spike ratio above 3.0 is a spike, above 5 a HIGH one (in 1/1000)
TvrSpike == 3 * 1000
TvrHigh == 5 * 1000
\* abnormal return thresholds, in 1/1000 of a percentage point
ArFlag == 2 * 1000
ArHigh == 5 * 1000
\* number of spikes from which "multiple volume spikes" is reported
ManySpikes == 3
\* cumulative abnormal return above which "high CAR" is reported (1/1000 %)
CarHigh == 10 * 1000

\* ------------------------------------------------------- Python built-ins
Abs(x) == IF x < 0 THEN -x ELSE x

Sgn(x) == IF x < 0 THEN -1 ELSE 1

Min(a, b) == IF a <= b THEN a ELSE b

RECURSIVE Pow10(_)
Pow10(k) == IF k = 0 THEN 1 ELSE 10 * Pow10(k - 1)

\* str.replace(old, ''), old a single character
Replace(s, old) == SelectSeq(s, LAMBDA c : c # old)

\* the value of a decimal digit
DigitVal ==
    [c \in {"0", "1", "2", "3", "4", "5", "6", "7", "8", "9"} |->
        CASE c = "0" -> 0 [] c = "1" -> 1 [] c = "2" -> 2 [] c = "3" -> 3
          [] c = "4" -> 4 [] c = "5" -> 5 [] c = "6" -> 6 [] c = "7" -> 7
          [] c = "8" -> 8 [] c = "9" -> 9]

Digits == DOMAIN DigitVal

DigitChar == <<"1", "2", "3", "4", "5", "6", "7", "8", "9">>

\* float() reads the text s from position i on: val is the number read so
\* far without its point, frac the number of fraction digits in val (-1
\* before the point), n the number of digits read.  A text other than
\* digits [ . digits ] raises ValueError (ok = FALSE); fraction digits
\* beyond `decimals` are dropped.
RECURSIVE FloatScan(_, _, _, _, _, _)
FloatScan(s, i, val, frac, n, decimals) ==
    IF i > Len(s)
    THEN [ok  |-> n > 0,
          val |-> IF frac = -1 THEN val * Pow10(decimals)
                  ELSE val * Pow10(decimals - frac)]
    ELSE IF s[i] = "."
    THEN IF frac >= 0 THEN [ok |-> FALSE, val |-> 0]
         ELSE FloatScan(s, i + 1, val, 0, n, decimals)
    ELSE IF s[i] \in Digits
    THEN IF frac = -1
         THEN FloatScan(s, i + 1, val * 10 + DigitVal[s[i]], frac, n + 1, decimals)
         ELSE IF frac < decimals
         THEN FloatScan(s, i + 1, val * 10 + DigitVal[s[i]], frac + 1, n + 1, decimals)
         ELSE FloatScan(s, i + 1, val, frac, n + 1, decimals)
    ELSE [ok |-> FALSE, val |-> 0]

\* float(s): the number in units of 10^-decimals
Float(s, decimals) ==
    IF Len(s) > 0 /\ s[1] = "-"
    THEN LET f == FloatScan(s, 2, 0, -1, 0, decimals)
         IN  [ok |-> f.ok, val |-> -f.val]
    ELSE IF Len(s) > 0 /\ s[1] = "+"
    THEN FloatScan(s, 2, 0, -1, 0, decimals)
    ELSE FloatScan(s, 1, 0, -1, 0, decimals)

\* the digits of num / den after the integer part, by long division
RECURSIVE LongDiv(_, _, _, _)
LongDiv(q, rem, den, k) ==
    IF k = 0 THEN q
    ELSE LongDiv(q * 10 + (rem * 10) \div den, (rem * 10) % den, den, k - 1)

\* num / den (den # 0) with k more decimal digits than num has
FDiv(num, den, k) ==
    LET a == Abs(num)
        b == Abs(den)
    IN  Sgn(num) * Sgn(den) * LongDiv(a \div b, a % b, b, k)

\* round(x, n) and the formats .1f / .2f : x rounded to a multiple of m,
\* ties to even
RoundTo(x, m) ==
    LET a  == Abs(x)
        q  == a \div m
        r  == a % m
        up == 2 * r > m \/ (2 * r = m /\ q % 2 = 1)
    IN  Sgn(x) * (IF up THEN q + 1 ELSE q) * m

\* round(x, 2) of a value in 1/1000
Round2(x) == RoundTo(x, 10)

\* format .1f of a value in 1/1000
Round1(x) == RoundTo(x, 100)

\* x ** 0.5 of a non-negative value: the largest s with s * s <= x
RECURSIVE SqrtBetween(_, _, _)
SqrtBetween(x, lo, hi) ==
    IF lo = hi THEN lo
    ELSE LET mid == (lo + hi + 1) \div 2
         IN  IF mid * mid <= x THEN SqrtBetween(x, mid, hi)
             ELSE SqrtBetween(x, lo, mid - 1)

Sqrt(x) == SqrtBetween(x, 0, 46340)

\* sum(list)
RECURSIVE Sum(_)
Sum(s) == IF s = <<>> THEN 0 ELSE s[1] + Sum(Tail(s))

\* (mutant of From: the slice starts one element early)
FromOneEarly(s, k) == SubSeq(s, k, Len(s))

\* list[k:]
From(s, k) == SubSeq(s, k + 1, Len(s))

\* list[:k]
UpTo(s, k) == SubSeq(s, 1, Min(k, Len(s)))

\* int(x) of a value in 1/100, then the format "," : the decimal digits in
\* groups of three
RECURSIVE IntText(_)
IntText(n) ==
    LET d == IF n % 10 = 0 THEN "0" ELSE DigitChar[n % 10]
    IN  IF n < 10 THEN <<d>> ELSE IntText(n \div 10) \o <<d>>

RECURSIVE Grouped(_)
Grouped(s) ==
    IF Len(s) <= 3 THEN s
    ELSE Grouped(SubSeq(s, 1, Len(s) - 3)) \o <<",">> \o SubSeq(s, Len(s) - 2, Len(s))

FormatInt(avg) ==
    LET n == Abs(avg) \div 100
    IN  (IF avg <= -100 THEN <<"-">> ELSE <<>>) \o Grouped(IntText(n))

\* dict.get(key, default)
Get(d, key, default) == IF key \in DOMAIN d THEN d[key] ELSE default

\* a dict without one key
Without(d, key) == [k \in DOMAIN d \ {key} |-> d[k]]

\* 'volume' in day and day['volume']
HasVolume(day) == "volume" \in DOMAIN day /\ day.volume # <<>>


\* Python's None, as a return value and as a table
None == [kind |-> "None"]

\* (mutant of TooFewDays: the length test is off by one)
TooFewDaysOffByOne(historical_data) ==
    \/ historical_data.kind = "None"
    \/ Len(historical_data.rows) = 0
    \/ Len(historical_data.rows) < MinDays - 1

\* not historical_data or len(historical_data) < 20
TooFewDays(historical_data) ==
    \/ historical_data.kind = "None"
    \/ Len(historical_data.rows) = 0
    \/ Len(historical_data.rows) < MinDays

\* the texts of the volume column
VolRegular == <<"1", ",", "0", "0", "0", ",", "0", "0", "0">>
VolTimes3  == <<"3", ",", "0", "0", "0", ",", "0", "0", "0">>
VolTimes4  == <<"4", ",", "0", "0", "0", ",", "0", "0", "0">>
VolTimes5  == <<"5", ",", "0", "0", "0", ",", "0", "0", "0">>
VolTimes52 == <<"5", ",", "2", "0", "0", ",", "0", "0", "0">>
VolTimes6  == <<"6", ",", "0", "0", "0", ",", "0", "0", "0">>
VolNegative == <<"-", "1", ",", "0", "0", "0", ",", "0", "0", "0">>
VolZero == <<"0">>
NotAvailable == <<"N", "/", "A">>

\* the texts of the close column
CloseRegular == <<"1", ",", "0", "0", "0", ".", "0", "0">>
CloseUp2     == <<"1", ",", "0", "2", "0", ".", "0", "0">>
CloseUp4     == <<"1", ",", "0", "4", "0", ".", "0", "0">>
CloseUp5     == <<"$", "1", ",", "0", "5", "0", ".", "0", "0">>
CloseUp10    == <<"1", ",", "1", "0", "0", ".", "0", "4">>

\* float(str(x).replace('$', '').replace(',', '')) of a close text
CloseFloat(text) == Float(Replace(Replace(text, "$"), ","), 3)

\* float(str(x).replace(',', '')) of a volume text
VolumeFloat(text) == Float(Replace(text, ","), 0)

\* the conversions of the texts of the source, computed once
CloseFloats ==
    [text \in {CloseRegular, CloseUp2, CloseUp4, CloseUp5, CloseUp10, NotAvailable, <<"0">>}
        |-> CloseFloat(text)]

VolumeFloats ==
    [text \in {VolRegular, VolTimes3, VolTimes4, VolTimes5, VolTimes52, VolTimes6,
                VolNegative, VolZero, NotAvailable}
        |-> VolumeFloat(text)]

\* float(str(historical_data[i].get('close', '0')).replace('$', '').replace(',', ''))
CloseOf(day) ==
    LET text == Get(day, "close", <<"0">>)
    IN  IF text \in DOMAIN CloseFloats THEN CloseFloats[text] ELSE CloseFloat(text)

\* the closes of all rows (a row's text is converted once here; the code
\* converts it in each of the two iterations the row takes part in)
Closes(rows) == [k \in 1..Len(rows) |-> CloseOf(rows[k])]

\* float(str(day['volume']).replace(',', ''))
VolumeOf(day) ==
    IF day.volume \in DOMAIN VolumeFloats THEN VolumeFloats[day.volume]
    ELSE VolumeFloat(day.volume)

\* ((close_today - close_yesterday) / close_yesterday) * 100, in 1/1000 %
DailyReturn(close_today, close_yesterday) ==
    FDiv((close_today - close_yesterday) * 100, close_yesterday, 3)

\* current_vol / avg_volume, in 1/1000
Tvr(current_vol, avg_volume) == FDiv(current_vol * 100, avg_volume, 3)

\* sum(xs) / len(xs): avg_volume in 1/100 of the unit of xs
AvgVolume(volumes) == FDiv(Sum(volumes), Len(volumes), 2)

\* sum(xs) / len(xs) in the unit of xs
Mean(xs) == FDiv(Sum(xs), Len(xs), 0)

\* (sum((r - m) ** 2 for r in xs) / len(xs)) ** 0.5
StdDev(xs, m) ==
    Sqrt(FDiv(Sum([k \in 1..Len(xs) |-> (xs[k] - m) * (xs[k] - m)]), Len(xs), 0))

\* -------------------------------------------------------------------------
\* calculate_fraud_indicators (src/stock_analyzer-enhanced.py)
\* -------------------------------------------------------------------------

\* the loop that collects the baseline volumes, from index i on
\* (mutant of CfiInBaseline: the recent rows enter the baseline too)
CfiInBaselineAllDays(i) == TRUE

\* (mutant of CfiInBaseline: the baseline starts after the tested rows)
CfiInBaselineAfterWindow(i) == i >= RecentWindow

\* if i >= 5: the rows whose volume enters the baseline
CfiInBaseline(i) == i >= BaselineSkip

\* (mutant of CfiIsSpike: the comparison is not strict)
CfiIsSpikeNotStrict(tvr) == tvr >= TvrSpike

\* (mutant of CfiIsSpike: a volume at or above the average is a spike)
CfiIsSpikeAboveAverage(tvr) == tvr >= 1000

\* if tvr > 3.0
CfiIsSpike(tvr) == tvr > TvrSpike

\* (mutant of CfiSpikeSeverity: the severity is decided by the spike threshold)
CfiSpikeSeveritySpikeThreshold(tvr) == IF tvr > TvrSpike THEN "HIGH" ELSE "MEDIUM"

\* 'HIGH' if tvr > 5 else 'MEDIUM'
CfiSpikeSeverity(tvr) == IF tvr > TvrHigh THEN "HIGH" ELSE "MEDIUM"

\* (mutant of CfiIsRecentSpike: every spike of the window gets a red flag)
CfiIsRecentSpikeWholeWindow(i) == i < RecentWindow

\* if i < 5: the spikes that get a red flag of their own
CfiIsRecentSpike(i) == i < BaselineSkip

RECURSIVE CfiVolumes(_, _)
CfiVolumes(rows, i) ==
    IF i >= Len(rows) THEN <<>>
    ELSE LET day  == rows[i + 1]
             rest == CfiVolumes(rows, i + 1)
             vol  == VolumeOf(day)
         IN  IF HasVolume(day) /\ vol.ok /\ CfiInBaseline(i)
             THEN <<vol.val>> \o rest
             ELSE rest

\* (mutant of CfiSpikeLoop: the try statement is around the loop, so that a
\* volume that does not convert ends the loop)
RECURSIVE CfiSpikeLoopTryOutside(_, _, _)
CfiSpikeLoopTryOutside(rows, avg_volume, i) ==
    IF i >= Min(RecentWindow, Len(rows))
    THEN [volume_spikes |-> <<>>, red_flags |-> <<>>, at |-> <<>>]
    ELSE LET day  == rows[i + 1]
             rest == CfiSpikeLoopTryOutside(rows, avg_volume, i + 1)
             current_vol == VolumeOf(day)
             tvr  == Tvr(current_vol.val, avg_volume)
         IN  IF HasVolume(day) /\ (~current_vol.ok \/ avg_volume = 0)
             THEN [volume_spikes |-> <<>>, red_flags |-> <<>>, at |-> <<>>]
             ELSE IF HasVolume(day) /\ CfiIsSpike(tvr)
             THEN [volume_spikes |->
                      <<[date       |-> Get(day, "date", "Unknown"),
                         tvr        |-> Round2(tvr),
                         volume     |-> day.volume,
                         avg_volume |-> FormatInt(avg_volume),
                         severity   |-> CfiSpikeSeverity(tvr)]>>
                      \o rest.volume_spikes,
                   red_flags |->
                      (IF CfiIsRecentSpike(i)
                       THEN <<[kind  |-> "volume_spike",
                               date  |-> Get(day, "date", "recent day"),
                               ratio |-> Round1(tvr)]>>
                       ELSE <<>>) \o rest.red_flags,
                   at |-> <<i>> \o rest.at]
             ELSE rest

\* (mutant of CfiSpikeLoop: a baseline of 0 is replaced by 1,000 before the
\* division)
RECURSIVE CfiSpikeLoopBaselineFloor(_, _, _)
CfiSpikeLoopBaselineFloor(rows, avg_volume, i) ==
    IF i >= Min(RecentWindow, Len(rows))
    THEN [volume_spikes |-> <<>>, red_flags |-> <<>>, at |-> <<>>]
    ELSE LET day  == rows[i + 1]
             rest == CfiSpikeLoopBaselineFloor(rows, avg_volume, i + 1)
             current_vol == VolumeOf(day)
             floor == IF avg_volume = 0 THEN 1000 * 100 ELSE avg_volume
             tvr  == Tvr(current_vol.val, floor)
         IN  IF /\ HasVolume(day)
                /\ current_vol.ok
                /\ CfiIsSpike(tvr)
             THEN [volume_spikes |->
                      <<[date       |-> Get(day, "date", "Unknown"),
                         tvr        |-> Round2(tvr),
                         volume     |-> day.volume,
                         avg_volume |-> FormatInt(floor),
                         severity   |-> CfiSpikeSeverity(tvr)]>>
                      \o rest.volume_spikes,
                   red_flags |->
                      (IF CfiIsRecentSpike(i)
                       THEN <<[kind  |-> "volume_spike",
                               date  |-> Get(day, "date", "recent day"),
                               ratio |-> Round1(tvr)]>>
                       ELSE <<>>) \o rest.red_flags,
                   at |-> <<i>> \o rest.at]
             ELSE rest

\* the loop over historical_data[:10] that emits the volume spikes, from
\* index i on; "at" lists the indices i that emitted a spike
RECURSIVE CfiSpikeLoop(_, _, _)
CfiSpikeLoop(rows, avg_volume, i) ==
    IF i >= Min(RecentWindow, Len(rows))
    THEN [volume_spikes |-> <<>>, red_flags |-> <<>>, at |-> <<>>]
    ELSE LET day  == rows[i + 1]
             rest == CfiSpikeLoop(rows, avg_volume, i + 1)
             current_vol == VolumeOf(day)
             tvr  == Tvr(current_vol.val, avg_volume)
         IN  IF /\ HasVolume(day)
                /\ current_vol.ok
                /\ avg_volume # 0          \* ZeroDivisionError: continue
                /\ CfiIsSpike(tvr)
             THEN [volume_spikes |->
                      <<[date       |-> Get(day, "date", "Unknown"),
                         tvr        |-> Round2(tvr),
                         volume     |-> day.volume,
                         avg_volume |-> FormatInt(avg_volume),
                         severity   |-> CfiSpikeSeverity(tvr)]>>
                      \o rest.volume_spikes,
                   red_flags |->
                      (IF CfiIsRecentSpike(i)
                       THEN <<[kind  |-> "volume_spike",
                               date  |-> Get(day, "date", "recent day"),
                               ratio |-> Round1(tvr)]>>
                       ELSE <<>>) \o rest.red_flags,
                   at |-> <<i>> \o rest.at]
             ELSE rest

\* the loop over range(len(historical_data) - 1) that collects the daily
\* returns, from index i on; closes[i + 1] is the float(...) of row i
RECURSIVE CfiDailyReturns(_, _)
CfiDailyReturns(closes, i) ==
    IF i >= Len(closes) - 1 THEN <<>>
    ELSE LET close_today     == closes[i + 1]
             close_yesterday == closes[i + 2]
             rest            == CfiDailyReturns(closes, i + 1)
         IN  IF close_today.ok /\ close_yesterday.ok /\ close_yesterday.val > 0
             THEN <<DailyReturn(close_today.val, close_yesterday.val)>> \o rest
             ELSE rest

\* (mutant of CfiIsAbnormal: the 2.0 comparison is not strict)
CfiIsAbnormalNotStrict(abnormal_return, std_dev) ==
    Abs(abnormal_return) >= ArFlag /\ Abs(abnormal_return) > 2 * std_dev

\* (mutant of CfiIsAbnormal: only the deviation is compared, not strictly)
CfiIsAbnormalStdOnly(abnormal_return, std_dev) ==
    Abs(abnormal_return) >= 2 * std_dev

\* the condition under which a return is flagged
CfiIsAbnormal(abnormal_return, std_dev) ==
    Abs(abnormal_return) > ArFlag /\ Abs(abnormal_return) > 2 * std_dev

\* (mutant of CfiDirection: the sign is taken the wrong way round)
CfiDirectionSwapped(abnormal_return) ==
    IF abnormal_return < 0 THEN "gain" ELSE "drop"

\* direction = "gain" if abnormal_return > 0 else "drop"
CfiDirection(abnormal_return) ==
    IF abnormal_return > 0 THEN "gain" ELSE "drop"

\* (mutant of CfiAbnormalLoop: cumulative_ar sums the abnormal return of
\* every day of the window, flagged or not)
RECURSIVE CfiAbnormalLoopAllDays(_, _, _, _, _)
CfiAbnormalLoopAllDays(rows, daily_returns, expected_return, std_dev, i) ==
    IF i >= Min(RecentWindow, Len(daily_returns))
    THEN [abnormal_returns |-> <<>>, red_flags |-> <<>>, cumulative_ar |-> 0,
          at |-> <<>>]
    ELSE LET day_return      == daily_returns[i + 1]
             abnormal_return == day_return - expected_return
             date            == Get(rows[i + 1], "date", "Unknown")
             rest == CfiAbnormalLoopAllDays(rows, daily_returns, expected_return,
                                     std_dev, i + 1)
         IN  IF CfiIsAbnormal(abnormal_return, std_dev)
             THEN [abnormal_returns |->
                      <<[date            |-> date,
                         actual_return   |-> Round2(day_return),
                         expected_return |-> Round2(expected_return),
                         abnormal_return |-> Round2(abnormal_return),
                         severity        |-> IF Abs(abnormal_return) > ArHigh
                                             THEN "HIGH" ELSE "MEDIUM"]>>
                      \o rest.abnormal_returns,
                   red_flags |->
                      (IF i < BaselineSkip
                       THEN <<[kind      |-> "abnormal",
                               direction |-> CfiDirection(abnormal_return),
                               date      |-> date,
                               magnitude |-> Round2(Abs(abnormal_return)),
                               expected  |-> Round2(expected_return)]>>
                       ELSE <<>>) \o rest.red_flags,
                   cumulative_ar |-> abnormal_return + rest.cumulative_ar,
                   at |-> <<i>> \o rest.at]
             ELSE [rest EXCEPT !.cumulative_ar = abnormal_return + @]

\* the loop over daily_returns[:10] that emits the abnormal returns, from
\* index i on; "at" lists the indices i that were flagged
RECURSIVE CfiAbnormalLoop(_, _, _, _, _)
CfiAbnormalLoop(rows, daily_returns, expected_return, std_dev, i) ==
    IF i >= Min(RecentWindow, Len(daily_returns))
    THEN [abnormal_returns |-> <<>>, red_flags |-> <<>>, cumulative_ar |-> 0,
          at |-> <<>>]
    ELSE LET day_return      == daily_returns[i + 1]
             abnormal_return == day_return - expected_return
             date            == Get(rows[i + 1], "date", "Unknown")
             rest == CfiAbnormalLoop(rows, daily_returns, expected_return,
                                     std_dev, i + 1)
         IN  IF CfiIsAbnormal(abnormal_return, std_dev)
             THEN [abnormal_returns |->
                      <<[date            |-> date,
                         actual_return   |-> Round2(day_return),
                         expected_return |-> Round2(expected_return),
                         abnormal_return |-> Round2(abnormal_return),
                         severity        |-> IF Abs(abnormal_return) > ArHigh
                                             THEN "HIGH" ELSE "MEDIUM"]>>
                      \o rest.abnormal_returns,
                   red_flags |->
                      (IF i < BaselineSkip
                       THEN <<[kind      |-> "abnormal",
                               direction |-> CfiDirection(abnormal_return),
                               date      |-> date,
                               magnitude |-> Round2(Abs(abnormal_return)),
                               expected  |-> Round2(expected_return)]>>
                       ELSE <<>>) \o rest.red_flags,
                   cumulative_ar |-> abnormal_return + rest.cumulative_ar,
                   at |-> <<i>> \o rest.at]
             ELSE rest

\* "multiple volume spikes" flag
CfiManySpikes(volume_spikes) ==
    IF Len(volume_spikes) >= ManySpikes
    THEN <<[kind |-> "multiple_spikes", count |-> Len(volume_spikes)]>>
    ELSE <<>>

\* (mutant of CfiHighCar: the rounded value is compared)
CfiHighCarRounded(cumulative_ar) ==
    IF Abs(Round2(cumulative_ar)) > CarHigh
    THEN <<[kind |-> "high_car", car |-> Round2(cumulative_ar)]>>
    ELSE <<>>

\* "high cumulative abnormal return" flag
CfiHighCar(cumulative_ar) ==
    IF Abs(cumulative_ar) > CarHigh
    THEN <<[kind |-> "high_car", car |-> Round2(cumulative_ar)]>>
    ELSE <<>>

\* (mutant of CfiInsider: no break, every abnormal return of the date of a
\* spike appends a flag)
CfiInsiderNoBreak(volume_spikes, abnormal_returns) ==
    LET pairs == [k \in 1..(Len(volume_spikes) * Len(abnormal_returns)) |->
                     [vs |-> volume_spikes[((k - 1) \div Len(abnormal_returns)) + 1],
                      ar |-> abnormal_returns[((k - 1) % Len(abnormal_returns)) + 1]]]
        matched == SelectSeq(pairs, LAMBDA pr : pr.vs.date = pr.ar.date)
    IN  [k \in 1..Len(matched) |->
            [kind |-> "insider_trading", date |-> matched[k].vs.date]]

\* (mutant of CfiInsider: the k-th spike is compared with the k-th abnormal
\* return only)
CfiInsiderPairwise(volume_spikes, abnormal_returns) ==
    LET both == Min(Len(volume_spikes), Len(abnormal_returns))
        idx  == SelectSeq([k \in 1..both |-> k],
                          LAMBDA k : volume_spikes[k].date = abnormal_returns[k].date)
    IN  [k \in 1..Len(idx) |->
            [kind |-> "insider_trading", date |-> volume_spikes[idx[k]].date]]

\* for vs in volume_spikes: for ar in abnormal_returns: same date -> flag, break
CfiInsider(volume_spikes, abnormal_returns) ==
    LET hit(vs) == \E k \in 1..Len(abnormal_returns) :
                       vs.date = abnormal_returns[k].date
        matched == SelectSeq(volume_spikes, hit)
    IN  [k \in 1..Len(matched) |->
            [kind |-> "insider_trading", date |-> matched[k].date]]

\* (mutant of CfiPartialReport: too few returns make the engine unavailable)
CfiPartialReportNone(spikes) == None

\* return fraud_indicators, while the daily returns are too few: the dict
\* as it is after the volume loops
CfiPartialReport(spikes) ==
    [kind |-> "report",
     volume_spikes    |-> spikes.volume_spikes,
     abnormal_returns |-> <<>>,
     cumulative_abnormal_return |-> 0,
     red_flags        |-> spikes.red_flags]

\* The function: ret is the value returned, frame the locals at the return.
calculate_fraud_indicators(historical_data) ==
    IF TooFewDays(historical_data)
    THEN [ret |-> None, frame |-> [exit |-> "too_few_days"]]
    ELSE
    LET rows       == historical_data.rows
        volumes    == CfiVolumes(rows, 0)
        avg_volume == AvgVolume(volumes)
        spikes     == CfiSpikeLoop(rows, avg_volume, 0)
        daily_returns   == CfiDailyReturns(Closes(rows), 0)
        expected_return == Mean(From(daily_returns, BaselineSkip))
        std_dev         == StdDev(From(daily_returns, BaselineSkip), expected_return)
        ars        == CfiAbnormalLoop(rows, daily_returns, expected_return, std_dev, 0)
    IN  IF Len(volumes) < MinSamples
        THEN [ret |-> None,
              frame |-> [exit |-> "too_few_volumes", volumes |-> volumes]]
        ELSE IF Len(daily_returns) < MinSamples
        THEN [ret |-> CfiPartialReport(spikes),
              frame |-> [exit |-> "too_few_returns", volumes |-> volumes,
                         avg_volume |-> avg_volume, spike_at |-> spikes.at,
                         daily_returns |-> daily_returns]]
        ELSE [ret |-> [kind |-> "report",
                       volume_spikes    |-> spikes.volume_spikes,
                       abnormal_returns |-> ars.abnormal_returns,
                       cumulative_abnormal_return |-> Round2(ars.cumulative_ar),
                       red_flags        |->
                           spikes.red_flags \o ars.red_flags
                           \o CfiManySpikes(spikes.volume_spikes)
                           \o CfiHighCar(ars.cumulative_ar)
                           \o CfiInsider(spikes.volume_spikes, ars.abnormal_returns)],
              frame |-> [exit |-> "complete", volumes |-> volumes,
                         avg_volume |-> avg_volume, spike_at |-> spikes.at,
                         daily_returns |-> daily_returns,
                         expected_return |-> expected_return,
                         std_dev |-> std_dev,
                         abnormal_at |-> ars.at,
                         cumulative_ar |-> ars.cumulative_ar]]


\* -------------------------------------------------------------------------
\* fraud_detection_agent_endpoint (src/stock_analyzer_agents_api.py)
\* -------------------------------------------------------------------------

\* 'volume' in day and day['volume'] and day['volume'] != 'N/A'
EpHasVolume(day) ==
    "volume" \in DOMAIN day /\ day.volume # <<>> /\ day.volume # <<"N", "/", "A">>

\* if i >= 5: the rows whose volume enters the baseline
EpInBaseline(i) == i >= BaselineSkip

\* if tvr > 3.0
EpIsSpike(tvr) == tvr > TvrSpike

\* 'HIGH' if tvr > 5 else 'MEDIUM'
EpSpikeSeverity(tvr) == IF tvr > TvrHigh THEN "HIGH" ELSE "MEDIUM"

RECURSIVE EpVolumes(_, _)
EpVolumes(rows, i) ==
    IF i >= Len(rows) THEN <<>>
    ELSE LET day  == rows[i + 1]
             rest == EpVolumes(rows, i + 1)
             vol  == VolumeOf(day)
         IN  IF EpHasVolume(day) /\ vol.ok /\ EpInBaseline(i)
             THEN <<vol.val>> \o rest
             ELSE rest

RECURSIVE EpSpikeLoop(_, _, _)
EpSpikeLoop(rows, avg_volume, i) ==
    IF i >= Min(RecentWindow, Len(rows))
    THEN [volume_spikes |-> <<>>, red_flags |-> <<>>, at |-> <<>>]
    ELSE LET day  == rows[i + 1]
             rest == EpSpikeLoop(rows, avg_volume, i + 1)
             current_vol == VolumeOf(day)
             tvr  == Tvr(current_vol.val, avg_volume)
         IN  IF /\ EpHasVolume(day)
                /\ current_vol.ok
                /\ avg_volume # 0          \* ZeroDivisionError: continue
                /\ EpIsSpike(tvr)
             THEN [volume_spikes |->
                      <<[date       |-> Get(day, "date", "Unknown"),
                         tvr        |-> Round2(tvr),
                         volume     |-> day.volume,
                         avg_volume |-> FormatInt(avg_volume),
                         severity   |-> EpSpikeSeverity(tvr)]>>
                      \o rest.volume_spikes,
                   red_flags |->
                      (IF i < BaselineSkip
                       THEN <<[kind  |-> "volume_spike",
                               date  |-> Get(day, "date", "recent day"),
                               ratio |-> Round1(tvr)]>>
                       ELSE <<>>) \o rest.red_flags,
                   at |-> <<i>> \o rest.at]
             ELSE rest

RECURSIVE EpDailyReturns(_, _)
EpDailyReturns(closes, i) ==
    IF i >= Len(closes) - 1 THEN <<>>
    ELSE LET close_today     == closes[i + 1]
             close_yesterday == closes[i + 2]
             rest            == EpDailyReturns(closes, i + 1)
         IN  IF close_today.ok /\ close_yesterday.ok /\ close_yesterday.val > 0
             THEN <<DailyReturn(close_today.val, close_yesterday.val)>> \o rest
             ELSE rest

EpIsAbnormal(abnormal_return, std_dev) ==
    Abs(abnormal_return) > ArFlag /\ Abs(abnormal_return) > 2 * std_dev

RECURSIVE EpAbnormalLoop(_, _, _, _, _)
EpAbnormalLoop(rows, daily_returns, expected_return, std_dev, i) ==
    IF i >= Min(RecentWindow, Len(daily_returns))
    THEN [abnormal_returns |-> <<>>, red_flags |-> <<>>, cumulative_ar |-> 0,
          at |-> <<>>]
    ELSE LET day_return      == daily_returns[i + 1]
             abnormal_return == day_return - expected_return
             date            == Get(rows[i + 1], "date", "Unknown")
             rest == EpAbnormalLoop(rows, daily_returns, expected_return,
                                    std_dev, i + 1)
         IN  IF EpIsAbnormal(abnormal_return, std_dev)
             THEN [abnormal_returns |->
                      <<[date            |-> date,
                         actual_return   |-> Round2(day_return),
                         expected_return |-> Round2(expected_return),
                         abnormal_return |-> Round2(abnormal_return),
                         severity        |-> IF Abs(abnormal_return) > ArHigh
                                             THEN "HIGH" ELSE "MEDIUM"]>>
                      \o rest.abnormal_returns,
                   red_flags |->
                      (IF i < BaselineSkip
                       THEN <<[kind      |-> "abnormal",
                               direction |-> IF abnormal_return > 0
                                             THEN "gain" ELSE "drop",
                               date      |-> date,
                               magnitude |-> Round2(Abs(abnormal_return)),
                               expected  |-> Round2(expected_return)]>>
                       ELSE <<>>) \o rest.red_flags,
                   cumulative_ar |-> abnormal_return + rest.cumulative_ar,
                   at |-> <<i>> \o rest.at]
             ELSE rest

EpManySpikes(volume_spikes) ==
    IF Len(volume_spikes) >= ManySpikes
    THEN <<[kind |-> "multiple_spikes", count |-> Len(volume_spikes)]>>
    ELSE <<>>

EpHighCar(cumulative_ar) ==
    IF Abs(cumulative_ar) > CarHigh
    THEN <<[kind |-> "high_car", car |-> Round2(cumulative_ar)]>>
    ELSE <<>>

EpInsider(volume_spikes, abnormal_returns) ==
    LET hit(vs) == \E k \in 1..Len(abnormal_returns) :
                       vs.date = abnormal_returns[k].date
        matched == SelectSeq(volume_spikes, hit)
    IN  [k \in 1..Len(matched) |->
            [kind |-> "insider_trading", date |-> matched[k].date]]

\* (mutant of EpRiskLevel: one red flag alone does not raise the level)
EpRiskLevelSeveralFlags(red_flags) == IF Len(red_flags) > 1 THEN "High" ELSE "Low"

\* "High" if len(red_flags) > 0 else "Low"
EpRiskLevel(red_flags) == IF Len(red_flags) > 0 THEN "High" ELSE "Low"

\* jsonify({"error": message}), status
ErrorResponse(status, message) == [status |-> status, error |-> message]

\* (mutant of EpTooFewReturns: the endpoint answers with the partial report)
EpTooFewReturnsPartial(spikes) ==
    [status |-> 200,
     agent  |-> "Fraud Detection Agent",
     fraud_indicators |->
        [volume_spikes    |-> spikes.volume_spikes,
         abnormal_returns |-> <<>>,
         cumulative_abnormal_return |-> 0,
         red_flags        |-> spikes.red_flags,
         risk_level       |-> EpRiskLevel(spikes.red_flags)]]

\* the response while the daily returns are too few
EpTooFewReturns(spikes) ==
    ErrorResponse(400, "Insufficient price data for AR calculation")

\* The handler, for the request's stock_symbol and the table that
\* fetch_historical_data delivers: ret is the response, frame the locals.
fraud_detection_agent_endpoint(stock_symbol, historical_data) ==
    IF stock_symbol = ""
    THEN [ret |-> ErrorResponse(400, "stock_symbol required"),
          frame |-> [exit |-> "no_symbol"]]
    ELSE IF TooFewDays(historical_data)
    THEN [ret |-> ErrorResponse(400, "Insufficient historical data (need at least 20 days)"),
          frame |-> [exit |-> "too_few_days"]]
    ELSE
    LET rows       == historical_data.rows
        volumes    == EpVolumes(rows, 0)
        avg_volume == AvgVolume(volumes)
        spikes     == EpSpikeLoop(rows, avg_volume, 0)
        daily_returns   == EpDailyReturns(Closes(rows), 0)
        expected_return == Mean(From(daily_returns, BaselineSkip))
        std_dev         == StdDev(From(daily_returns, BaselineSkip), expected_return)
        ars        == EpAbnormalLoop(rows, daily_returns, expected_return, std_dev, 0)
        red_flags  == spikes.red_flags \o ars.red_flags
                      \o EpManySpikes(spikes.volume_spikes)
                      \o EpHighCar(ars.cumulative_ar)
                      \o EpInsider(spikes.volume_spikes, ars.abnormal_returns)
    IN  IF Len(volumes) < MinSamples
        THEN [ret |-> ErrorResponse(400, "Insufficient volume data"),
              frame |-> [exit |-> "too_few_volumes", volumes |-> volumes]]
        ELSE IF Len(daily_returns) < MinSamples
        THEN [ret |-> EpTooFewReturns(spikes),
              frame |-> [exit |-> "too_few_returns", volumes |-> volumes,
                         avg_volume |-> avg_volume, spike_at |-> spikes.at,
                         daily_returns |-> daily_returns]]
        ELSE [ret |-> [status |-> 200,
                       agent  |-> "Fraud Detection Agent",
                       stock_symbol |-> stock_symbol,
                       fraud_indicators |->
                          [volume_spikes    |-> spikes.volume_spikes,
                           abnormal_returns |-> ars.abnormal_returns,
                           cumulative_abnormal_return |-> Round2(ars.cumulative_ar),
                           red_flags        |-> red_flags,
                           risk_level       |-> EpRiskLevel(red_flags)]],
              frame |-> [exit |-> "complete", volumes |-> volumes,
                         avg_volume |-> avg_volume, spike_at |-> spikes.at,
                         daily_returns |-> daily_returns,
                         expected_return |-> expected_return,
                         std_dev |-> std_dev,
                         abnormal_at |-> ars.at,
                         cumulative_ar |-> ars.cumulative_ar]]


\* -------------------------------------------------------------------------
\* analyze_fraud_risk_with_llm and main (src/stock_analyzer-enhanced.py)
\* -------------------------------------------------------------------------

\* bool(d) of the value of calculate_fraud_indicators: None is false, the
\* report is a dict of four keys and is true, whatever its lists hold
Truthy(d) == d.kind # "None"

\* (mutant of MainHasIndicators: a report without a red flag is not
\* analysed)
MainHasIndicatorsFlagged(fraud_indicators) ==
    /\ Truthy(fraud_indicators)
    /\ fraud_indicators.red_flags # <<>>

\* if fraud_indicators:
MainHasIndicators(fraud_indicators) == Truthy(fraud_indicators)

\* The function, for the report and for the outcome of
\* client.chat.completions.create (completion: it returns a text; otherwise
\* it raises): ret is the value returned, requested tells that the request
\* was sent.
analyze_fraud_risk_with_llm(fraud_indicators, completion) ==
    IF ~Truthy(fraud_indicators)
    THEN [ret |-> None, requested |-> FALSE]
    ELSE IF completion
    THEN [ret |-> [kind |-> "text"], requested |-> TRUE]
    ELSE [ret |-> None, requested |-> TRUE]

\* -------------------------------------------------------------------------
\* fraud_analysis_agent_endpoint (src/stock_analyzer_agents_api.py)
\* -------------------------------------------------------------------------

\* format(text, ','): the option ',' is not defined for a str
FormatStrComma(text) == [ok |-> FALSE, error |-> "Cannot specify ',' with 's'."]

\* the lines of the summary about the volume spikes: the first spike ends
\* them with the ValueError of its volume
FaSpikeLines(volume_spikes) ==
    IF volume_spikes = <<>> THEN [ok |-> TRUE]
    ELSE FormatStrComma(volume_spikes[1].volume)

\* (mutant of FaDetectionAnswered: only a server error of the detection
\* endpoint ends the request)
FaDetectionAnsweredNoServerError(status_code) == status_code # 500

\* if response.status_code == 200:
FaDetectionAnswered(status_code) == status_code = 200

\* The handler, for the request's stock_symbol, the response that
\* test_client.post('/api/agents/fraud-detection') gets for this symbol and
\* the outcome of client.chat.completions.create: ret is the response,
\* frame tells the status the detection endpoint answered with and whether
\* the LLM was called.
fraud_analysis_agent_endpoint(stock_symbol, response, completion) ==
    IF stock_symbol = ""
    THEN [ret |-> ErrorResponse(400, "stock_symbol required"),
          frame |-> [exit |-> "no_symbol", llm_called |-> FALSE]]
    ELSE
    LET fraud_indicators == Get(response, "fraud_indicators", <<>>)
        volume_spikes    == Get(fraud_indicators, "volume_spikes", <<>>)
        lines            == FaSpikeLines(volume_spikes)
    IN  IF ~FaDetectionAnswered(response.status)
        THEN [ret |-> ErrorResponse(400, "Could not fetch fraud indicators"),
              frame |-> [exit |-> "no_indicators", llm_called |-> FALSE,
                         status_code |-> response.status]]
        ELSE IF ~lines.ok
        THEN [ret |-> ErrorResponse(500, lines.error),
              frame |-> [exit |-> "format_error", llm_called |-> FALSE,
                         status_code |-> response.status]]
        ELSE IF ~completion
        THEN [ret |-> ErrorResponse(500, "completion failed"),
              frame |-> [exit |-> "llm_error", llm_called |-> TRUE,
                         status_code |-> response.status]]
        ELSE [ret |-> [status |-> 200,
                       agent  |-> "Fraud Analysis Agent",
                       stock_symbol |-> stock_symbol,
                       fraud_risk_assessment |-> [kind |-> "text"]],
              frame |-> [exit |-> "complete", llm_called |-> TRUE,
                         status_code |-> response.status]]

\* -------------------------------------------------------------------------
\* multi_agent_orchestrator_endpoint (src/stock_analyzer_agents_api.py)
\* -------------------------------------------------------------------------

\* the routes of the 11 agents, in the order of the handler
Agents ==
    <<"technical-analysis", "fundamental-analysis", "company-name",
      "fraud-detection", "fraud-analysis",
      "summary", "executive-summary", "detailed-analysis",
      "investment-recommendation", "analyst-synthesis", "meta-analysis">>

\* the key of results["analysis"] under which the handler stores the
\* answer of a route
AnalysisKey ==
    [route \in {Agents[k] : k \in 1..Len(Agents)} |->
        CASE route = "technical-analysis"   -> "technical_analysis"
          [] route = "fundamental-analysis" -> "fundamental_analysis"
          [] route = "company-name"         -> "company_info"
          [] route = "fraud-detection"      -> "fraud_detection"
          [] route = "fraud-analysis"       -> "fraud_analysis"
          [] route = "summary"              -> "summary"
          [] route = "executive-summary"    -> "executive_summary"
          [] route = "detailed-analysis"    -> "detailed_analysis"
          [] route = "investment-recommendation" -> "investment_recommendation"
          [] route = "analyst-synthesis"    -> "analyst_synthesis"
          [] route = "meta-analysis"        -> "meta_analysis"]

\* response.get_json(): the body of a response
GetJson(response) == Without(response, "status")

\* test_client.post(route, json = ...): the response of the route's
\* handler, detection and analysis being those of the two fraud agents for
\* this symbol; the handlers that are not about fraud answer with their
\* name
Post(route, stock_symbol, detection, analysis) ==
    CASE route = "fraud-detection" -> detection
      [] route = "fraud-analysis" -> analysis
      [] OTHER -> [status |-> 200, agent |-> route, stock_symbol |-> stock_symbol]

\* (mutant of MaoRemaining: one try statement around all the agents, so
\* that an agent that raises is the last one)
MaoRemainingNoneAfterRaise(routes, raised) == IF raised THEN <<>> ELSE Tail(routes)

\* the agents still to be invoked after the first of routes: each agent has
\* its own try statement
MaoRemaining(routes, raised) == Tail(routes)

\* the routes the handler posts to, in order, when the agents of the set
\* raising raise an exception
RECURSIVE MaoInvoked(_, _)
MaoInvoked(routes, raising) ==
    IF routes = <<>> THEN <<>>
    ELSE <<Head(routes)>>
             \o MaoInvoked(MaoRemaining(routes, Head(routes) \in raising), raising)

\* The handler, for the request's stock_symbol, the outcome of
\* fetch_stock_data (stock_data: a dict without the key 'error'), the
\* responses of the two fraud agents for this symbol and the agents that
\* raise: ret is the response, invoked lists the routes in the order they
\* were posted to.
multi_agent_orchestrator_endpoint(stock_symbol, stock_data, detection, analysis, raising) ==
    IF stock_symbol = ""
    THEN [ret |-> ErrorResponse(400, "stock_symbol required"), invoked |-> <<>>]
    ELSE IF ~stock_data
    THEN [ret |-> ErrorResponse(400, "Could not fetch stock data"), invoked |-> <<>>]
    ELSE
    LET invoked == MaoInvoked(Agents, raising)
        entry(route) ==
            IF route \in raising THEN [error |-> "raised"]
            ELSE GetJson(Post(route, stock_symbol, detection, analysis))
        routeOf(key) ==
            CHOOSE route \in {invoked[k] : k \in 1..Len(invoked)} :
                AnalysisKey[route] = key
    IN  [ret |-> [status |-> 200,
                  stock_symbol |-> stock_symbol,
                  agents_deployed |-> Len(Agents),
                  analysis |-> [key \in {AnalysisKey[invoked[k]] : k \in 1..Len(invoked)}
                                   |-> entry(routeOf(key))]],
         invoked |-> invoked]

\* -------------------------------------------------------------------------
\* The data source (fetch_historical_data): the tables it can deliver.
\* A row is a dict with the keys date, close and volume; every value is a
\* text; the rows are ordered most recent first.
\* -------------------------------------------------------------------------

\* the date column of the source, most recent first
DateLabel ==
    <<"Apr 30, 2024", "Apr 29, 2024", "Apr 26, 2024",
     "Apr 25, 2024", "Apr 24, 2024", "Apr 23, 2024",
     "Apr 22, 2024", "Apr 19, 2024", "Apr 18, 2024",
     "Apr 17, 2024", "Apr 16, 2024", "Apr 15, 2024",
     "Apr 12, 2024", "Apr 11, 2024", "Apr 10, 2024",
     "Apr 9, 2024", "Apr 8, 2024", "Apr 5, 2024",
     "Apr 4, 2024", "Apr 3, 2024", "Apr 2, 2024",
     "Apr 1, 2024", "Mar 29, 2024", "Mar 28, 2024",
     "Mar 27, 2024", "Mar 26, 2024", "Mar 25, 2024",
     "Mar 22, 2024", "Mar 21, 2024", "Mar 20, 2024">>

\* the deviations of the volume of a row <<index, text>>: on the most
\* recent row the ratios 3.0, 5.0 and 5.2 and a text that is no number, on
\* the last recent row the ratios 4 and 6, a spike on the last row that is
\* tested and on the first that is not, a negative number in the baseline
VolumeEdits ==
    {<<0, VolTimes3>>, <<0, VolTimes5>>, <<0, VolTimes52>>, <<0, NotAvailable>>,
     <<BaselineSkip - 1, VolTimes4>>, <<BaselineSkip - 1, VolTimes6>>,
     <<RecentWindow - 1, VolTimes52>>,
     <<RecentWindow, VolTimes52>>, <<RecentWindow, VolNegative>>}

\* the deviations of the close of a row <<index, text>>: on the most recent
\* row a return of 2.0, 5.0 and 10.004 per cent and a text that is no
\* number, on the first row that is not "recent" a return of 5.0 per cent
\* and a text that is no number, a return of 10.004 per cent on the first
\* row that is not tested
CloseEdits ==
    {<<0, CloseUp2>>, <<0, CloseUp5>>, <<0, CloseUp10>>, <<0, NotAvailable>>,
     <<BaselineSkip, CloseUp5>>, <<BaselineSkip, NotAvailable>>,
     <<RecentWindow, CloseUp10>>}

\* the rows that can lack a key
IncompleteDays == {0}

\* the rows whose date label can repeat the label of the row before
DateDays == {BaselineSkip - 1, BaselineSkip}

\* A regular table has n rows; from row volume_from on the volume column
\* reads N/A and from row close_from on the close column does; a volatile
\* table alternates its older closes; a table with a burst has 4 times the
\* regular volume on the days 3..5; a silent table has no trade on the
\* older days: their volume reads 0.
Profile(n, volume_from, close_from, volatile, burst) ==
    [n |-> n, volume_from |-> volume_from, close_from |-> close_from,
     volatile |-> volatile, burst |-> burst, silent |-> FALSE]

Silent(p) == [p EXCEPT !.silent = TRUE]

Profiles ==
    {Profile(n, n, n, FALSE, FALSE) : n \in {MinDays - 1, MinDays, MaxDays}}
    \cup {Profile(MinDays, BaselineSkip + k, MinDays, FALSE, FALSE) :
             k \in {MinSamples - 1, MinSamples}}
    \cup {Profile(MinDays, MinDays, k, FALSE, b) :
             k \in {MinSamples, MinSamples + 1}, b \in BOOLEAN}
    \cup {Profile(MinDays, MinDays, MinDays, TRUE, FALSE),
          Profile(MinDays, MinDays, MinDays, FALSE, TRUE),
          Silent(Profile(MinDays, MinDays, MinDays, FALSE, FALSE))}

RegularRow(p, i) ==
    [date   |-> DateLabel[i + 1],
     volume |-> IF i >= p.volume_from THEN NotAvailable
                ELSE IF p.burst /\ i \in 3..5 THEN VolTimes4
                ELSE IF p.silent /\ i >= BaselineSkip THEN VolZero
                ELSE VolRegular,
     close  |-> IF i >= p.close_from THEN NotAvailable
                ELSE IF p.volatile /\ i >= BaselineSkip /\ i % 2 = 1 THEN CloseUp4
                ELSE CloseRegular]

List(rows) == [kind |-> "list", rows |-> rows]

Table(p) == List([k \in 1..p.n |-> RegularRow(p, k - 1)])

\* -------------------------------------------------------------------------
\* State
\* -------------------------------------------------------------------------
VARIABLES
    historical_data,   \* the table fetched: None or a list of rows
    edited,            \* the <<row, key>> in which it deviates from regular
    fraud_indicators,  \* main: the value of calculate_fraud_indicators
    cfi_frame,         \* the locals of calculate_fraud_indicators at return
    response,          \* the response of fraud_detection_agent_endpoint
    ep_frame,          \* the locals of the endpoint at return
    fraud_risk_analysis,  \* main: the value of analyze_fraud_risk_with_llm
    main_frame,        \* main: how far it went, and whether the LLM was asked
    agent_response,    \* the response to the request served last by the
                       \* fraud-analysis route or by the orchestrator
    agent_frame        \* the route of that request and the handler's locals

vars == <<historical_data, edited, fraud_indicators, cfi_frame, response, ep_frame,
          fraud_risk_analysis, main_frame, agent_response, agent_frame>>

\* what the agents that call the LLM leave behind
agents == <<agent_response, agent_frame>>

\* a variable that was not assigned yet
NotCalled == [kind |-> "NotCalled"]

\* the locals of a function that was not called yet
NoFrame == [exit |-> "not_called"]

\* the request's stock_symbol, after .upper()
Symbols == {"", "NVDA"}

Init ==
    /\ historical_data \in {None, List(<<>>)} \cup {Table(p) : p \in Profiles}
    /\ edited = {}
    /\ fraud_indicators = NotCalled
    /\ cfi_frame = NoFrame
    /\ response = NotCalled
    /\ ep_frame = NoFrame
    /\ fraud_risk_analysis = NotCalled
    /\ main_frame = NoFrame
    /\ agent_response = NotCalled
    /\ agent_frame = NoFrame

\* the source may still change the table: nothing was computed from it
Fetching ==
    /\ fraud_indicators = NotCalled
    /\ response = NotCalled
    /\ historical_data.kind = "list"
    /\ Cardinality(edited) < MaxEdits

CanEdit(i, key) ==
    /\ Fetching
    /\ i < Len(historical_data.rows)
    /\ <<i, key>> \notin edited
    /\ key \in DOMAIN historical_data.rows[i + 1]

Edit(i, key, row) ==
    /\ historical_data' = List([historical_data.rows EXCEPT ![i + 1] = row])
    /\ edited' = edited \cup {<<i, key>>}
    /\ UNCHANGED <<fraud_indicators, cfi_frame, response, ep_frame>>
    /\ UNCHANGED <<fraud_risk_analysis, main_frame, agents>>

\* the source delivers another volume text for row i
ScrapeVolume(i, text) ==
    /\ CanEdit(i, "volume")
    /\ Edit(i, "volume", [historical_data.rows[i + 1] EXCEPT !.volume = text])

\* the source delivers another close text for row i
ScrapeClose(i, text) ==
    /\ CanEdit(i, "close")
    /\ Edit(i, "close", [historical_data.rows[i + 1] EXCEPT !.close = text])

\* the source delivers row i under the date label of row i - 1
ScrapeDate(i) ==
    /\ CanEdit(i, "date")
    /\ Edit(i, "date", [historical_data.rows[i + 1] EXCEPT
                           !.date = historical_data.rows[i].date])

\* the source delivers row i without one of its keys
ScrapeWithout(i, key) ==
    /\ CanEdit(i, key)
    /\ Edit(i, key, Without(historical_data.rows[i + 1], key))

\* (mutant of MainCalculate: the engine stores the volume it cleaned of its
\* commas back into the row)
MainCalculateCleansInput ==
    /\ fraud_indicators = NotCalled
    /\ LET r == calculate_fraud_indicators(historical_data)
       IN  /\ fraud_indicators' = r.ret
           /\ cfi_frame' = r.frame
    /\ historical_data' =
          IF historical_data.kind = "None" THEN historical_data
          ELSE List([k \in 1..Len(historical_data.rows) |->
                       IF HasVolume(historical_data.rows[k])
                       THEN [historical_data.rows[k] EXCEPT
                                !.volume = Replace(@, ",")]
                       ELSE historical_data.rows[k]])
    /\ fraud_risk_analysis' = None
    /\ main_frame' = [exit |-> "calculated"]
    /\ UNCHANGED <<edited, response, ep_frame, agents>>

\* main (src/stock_analyzer-enhanced.py): the call of the engine, and
\* fraud_risk_analysis = None
MainCalculate ==
    /\ fraud_indicators = NotCalled
    /\ LET r == calculate_fraud_indicators(historical_data)
       IN  /\ fraud_indicators' = r.ret
           /\ cfi_frame' = r.frame
    /\ fraud_risk_analysis' = None
    /\ main_frame' = [exit |-> "calculated"]
    /\ UNCHANGED <<historical_data, edited, response, ep_frame, agents>>

\* main, from "if fraud_indicators:" to the call of
\* analyze_fraud_risk_with_llm: with a report it prints the findings and
\* asks for the analysis, without one it goes on
MainFraudRisk(completion) ==
    /\ main_frame.exit = "calculated"
    /\ IF MainHasIndicators(fraud_indicators)
       THEN LET a == analyze_fraud_risk_with_llm(fraud_indicators, completion)
            IN  /\ fraud_risk_analysis' = a.ret
                /\ main_frame' = [exit |-> "analysed", requested |-> a.requested]
       ELSE /\ fraud_risk_analysis' = fraud_risk_analysis
            /\ main_frame' = [exit |-> "unavailable", requested |-> FALSE]
    /\ UNCHANGED <<historical_data, edited, fraud_indicators, cfi_frame,
                   response, ep_frame, agents>>

\* POST /api/agents/fraud-detection, for the table that main analysed; the
\* route serves any number of requests, each replaces the last response
FraudDetection(stock_symbol) ==
    /\ fraud_indicators # NotCalled
    /\ LET r == fraud_detection_agent_endpoint(stock_symbol, historical_data)
       IN  /\ response' = r.ret
           /\ ep_frame' = r.frame
    /\ UNCHANGED <<historical_data, edited, fraud_indicators, cfi_frame>>
    /\ UNCHANGED <<fraud_risk_analysis, main_frame, agents>>

\* POST /api/agents/fraud-analysis.  The handlers of the two routes below
\* keep nothing from one request to the next and read the table only: the
\* model follows the first request they serve.
FraudAnalysis(stock_symbol, completion) ==
    /\ agent_response = NotCalled
    /\ \E detection \in {fraud_detection_agent_endpoint(stock_symbol, historical_data).ret} :
       \E r \in {fraud_analysis_agent_endpoint(stock_symbol, detection, completion)} :
          /\ agent_response' = r.ret
          /\ agent_frame' = [route |-> "fraud-analysis", completion |-> completion]
                                @@ r.frame
    /\ UNCHANGED <<historical_data, edited, fraud_indicators, cfi_frame,
                   response, ep_frame, fraud_risk_analysis, main_frame>>

\* the sets of agents that raise in one request: none, one, or all
Raising ==
    {{}} \cup {{Agents[k]} : k \in 1..Len(Agents)}
         \cup {{Agents[k] : k \in 1..Len(Agents)}}

\* POST /api/orchestrator/full-analysis
Orchestrator(stock_symbol, stock_data, raising, completion) ==
    /\ agent_response = NotCalled
    /\ \E detection \in {fraud_detection_agent_endpoint(stock_symbol, historical_data).ret} :
       \E analysis \in {fraud_analysis_agent_endpoint(stock_symbol, detection, completion).ret} :
       \E r \in {multi_agent_orchestrator_endpoint(stock_symbol, stock_data,
                     detection, analysis, raising)} :
          /\ agent_response' = r.ret
          /\ agent_frame' = [route |-> "full-analysis", invoked |-> r.invoked,
                               stock_symbol |-> stock_symbol,
                               stock_data |-> stock_data, raising |-> raising]
    /\ UNCHANGED <<historical_data, edited, fraud_indicators, cfi_frame,
                   response, ep_frame, fraud_risk_analysis, main_frame>>

Next ==
    \/ \E e \in VolumeEdits : ScrapeVolume(e[1], e[2])
    \/ \E e \in CloseEdits : ScrapeClose(e[1], e[2])
    \/ \E i \in IncompleteDays, key \in {"date", "volume", "close"} : ScrapeWithout(i, key)
    \/ \E i \in DateDays : ScrapeDate(i)
    \/ MainCalculate
    \/ \E stock_symbol \in Symbols : FraudDetection(stock_symbol)

Spec == Init /\ [][Next]_vars

\* The callers of the engine, on the tables as they are delivered: main up
\* to the request of the LLM analysis, and the two routes that call the
\* other agents.
AgentsNext ==
    \/ MainCalculate
    \/ \E completion \in BOOLEAN : MainFraudRisk(completion)
    \/ \E stock_symbol \in Symbols, completion \in BOOLEAN :
          FraudAnalysis(stock_symbol, completion)
    \/ \E stock_symbol \in Symbols, stock_data \in BOOLEAN,
          raising \in Raising, completion \in BOOLEAN :
          Orchestrator(stock_symbol, stock_data, raising, completion)

AgentsSpec == Init /\ [][AgentsNext]_vars


\* -------------------------------------------------------------------------
\* The claims.  What a claim says of the input is stated here from the
\* table itself (sets of row indices), not from the loops of the engine.
\* -------------------------------------------------------------------------

\* len(historical_data), 0 for None
NDays == IF historical_data.kind = "None" THEN 0 ELSE Len(historical_data.rows)

\* historical_data[i]
RowAt(i) == historical_data.rows[i + 1]

Range(seq) == {seq[k] : k \in 1..Len(seq)}

\* the volume of row i is a text that denotes a number
VolumeParses(i) == "volume" \in DOMAIN RowAt(i) /\ VolumeOf(RowAt(i)).ok

\* the rows at index >= 5 whose volume parses
BaselineDays == {i \in BaselineSkip..(NDays - 1) : VolumeParses(i)}

RECURSIVE VolumeSum(_)
VolumeSum(days) ==
    IF days = {} THEN 0
    ELSE LET i == CHOOSE d \in days : TRUE
         IN  VolumeOf(RowAt(i)).val + VolumeSum(days \ {i})

\* the mean of the volumes of the baseline days, in 1/100
BaselineMean == FDiv(VolumeSum(BaselineDays), Cardinality(BaselineDays), 2)

\* the adjacent pairs (i, i + 1) that yield a daily return
ReturnPairs ==
    {i \in 0..(NDays - 2) :
        /\ CloseOf(RowAt(i)).ok
        /\ CloseOf(RowAt(i + 1)).ok
        /\ CloseOf(RowAt(i + 1)).val > 0}

\* the rows among the first 10 whose volume is more than 3.0 times baseline
SpikeDays(baseline) ==
    {i \in 0..(Min(RecentWindow, NDays) - 1) :
        VolumeParses(i) /\ Tvr(VolumeOf(RowAt(i)).val, baseline) > TvrSpike}

\* the returns among the first 10 of a frame that the claims call abnormal
AbnormalOf(frame, i) == frame.daily_returns[i + 1] - frame.expected_return

AbnormalDays(frame) ==
    {i \in 0..(Min(RecentWindow, Len(frame.daily_returns)) - 1) :
        /\ Abs(AbnormalOf(frame, i)) > ArFlag
        /\ Abs(AbnormalOf(frame, i)) > 2 * frame.std_dev}

RECURSIVE AbnormalSum(_, _)
AbnormalSum(frame, days) ==
    IF days = {} THEN 0
    ELSE LET i == CHOOSE d \in days : TRUE
         IN  AbnormalOf(frame, i) + AbnormalSum(frame, days \ {i})

HasFlag(red_flags, kind) == \E k \in 1..Len(red_flags) : red_flags[k].kind = kind

\* calculate_fraud_indicators returned a report
CfiReport == fraud_indicators.kind = "report"

\* the endpoint answered with a report
EpReport == response # NotCalled /\ response.status = 200

\* the endpoint has not answered, or answered Unavailable: a 400 error
\* without a report
EpUnavailable ==
    \/ response = NotCalled
    \/ response.status = 400 /\ "fraud_indicators" \notin DOMAIN response

\* calculate_fraud_indicators has not returned, or returned Unavailable
CfiUnavailable == fraud_indicators \in {NotCalled, None}

\* C1: a table of fewer than 20 observations (None and the empty table
\* included) makes calculate_fraud_indicators return None and the endpoint
\* answer with a 400 error; neither produces a report.
C1_FewDaysUnavailable ==
    NDays < MinDays => CfiUnavailable /\ EpUnavailable

C1_Witness ==
    /\ NDays = MinDays - 1
    /\ fraud_indicators = None
    /\ response # NotCalled
    /\ response.status = 400
    /\ response.error = "Insufficient historical data (need at least 20 days)"

\* C2: the volume baseline is the mean of the volumes of exactly the rows
\* at index >= 5 whose volume parses (so no volume at index 0..4 enters
\* it), and with fewer than 10 such rows the engine is Unavailable.
C2_BaselineFromOlderDays ==
    /\ cfi_frame.exit \in {"too_few_returns", "complete"}
           => cfi_frame.avg_volume = BaselineMean
    /\ ep_frame.exit \in {"too_few_returns", "complete"}
           => ep_frame.avg_volume = BaselineMean
    /\ Cardinality(BaselineDays) < MinSamples => CfiUnavailable /\ EpUnavailable

C2_Witness ==
    /\ CfiReport
    /\ EpReport
    /\ VolumeParses(0)
    /\ VolumeOf(RowAt(0)).val = 5200000
    /\ cfi_frame.avg_volume = 1000000 * 100
    /\ ep_frame.avg_volume = 1000000 * 100

\* the spikes of a report are those of SpikeDays, in increasing index
\* order, each with the severity of its ratio
SpikesAsClaimed(frame, volume_spikes) ==
    LET at == frame.spike_at
        ratio(i) == Tvr(VolumeOf(RowAt(i)).val, frame.avg_volume)
    IN  /\ Range(at) = SpikeDays(frame.avg_volume)
        /\ \A k \in 1..(Len(at) - 1) : at[k] < at[k + 1]
        /\ \A k \in 1..Len(at) : at[k] < RecentWindow
        /\ Len(volume_spikes) = Len(at)
        /\ \A k \in 1..Len(at) :
              /\ volume_spikes[k].date = Get(RowAt(at[k]), "date", "Unknown")
              /\ volume_spikes[k].severity =
                     IF ratio(at[k]) > TvrHigh THEN "HIGH" ELSE "MEDIUM"

\* C3: a row at index 0..9 whose volume parses yields a VolumeSpike iff
\* its ratio to the baseline is strictly above 3.0, HIGH iff strictly above
\* 5.0; no row at index >= 10 yields one; spikes are in index order.
C3_SpikeThresholds ==
    /\ CfiReport /\ cfi_frame.avg_volume # 0
           => SpikesAsClaimed(cfi_frame, fraud_indicators.volume_spikes)
    /\ EpReport /\ ep_frame.avg_volume # 0
           => SpikesAsClaimed(ep_frame, response.fraud_indicators.volume_spikes)

C3_Witness ==
    /\ CfiReport
    /\ EpReport
    /\ Len(response.fraud_indicators.volume_spikes) = 1
    /\ \E k \in 1..Len(fraud_indicators.volume_spikes) :
          /\ fraud_indicators.volume_spikes[k].tvr = TvrHigh
          /\ fraud_indicators.volume_spikes[k].severity = "MEDIUM"

\* at least 20 rows and 10 baseline volumes, but fewer than 10 returns
TooFewReturnsOnly ==
    /\ NDays >= MinDays
    /\ Cardinality(BaselineDays) >= MinSamples
    /\ Cardinality(ReturnPairs) < MinSamples

\* C4: with at least 20 rows and 10 baseline volumes but fewer than 10
\* daily returns, calculate_fraud_indicators returns the report as
\* populated so far: the volume spikes and their per-day red flags, no
\* abnormal return and a cumulative abnormal return of 0.
C4_PartialReport ==
    TooFewReturnsOnly /\ fraud_indicators # NotCalled =>
        /\ CfiReport
        /\ fraud_indicators.abnormal_returns = <<>>
        /\ fraud_indicators.cumulative_abnormal_return = 0
        /\ Len(fraud_indicators.volume_spikes) = Cardinality(SpikeDays(BaselineMean))
        /\ Len(fraud_indicators.red_flags) =
               Cardinality({i \in SpikeDays(BaselineMean) : i < BaselineSkip})
        /\ \A k \in 1..Len(fraud_indicators.red_flags) :
               fraud_indicators.red_flags[k].kind = "volume_spike"

C4_Witness ==
    /\ TooFewReturnsOnly
    /\ CfiReport
    /\ Len(fraud_indicators.volume_spikes) >= 2
    /\ Len(fraud_indicators.red_flags) >= 1
    /\ fraud_indicators.abnormal_returns = <<>>

AbnormalAsClaimed(frame, abnormal_returns) ==
    LET at == frame.abnormal_at
    IN  /\ Range(at) = AbnormalDays(frame)
        /\ \A k \in 1..Len(at) : at[k] < RecentWindow
        /\ Len(abnormal_returns) = Len(at)
        /\ \A k \in 1..Len(at) :
              abnormal_returns[k].abnormal_return = Round2(AbnormalOf(frame, at[k]))

\* C6: among the first 10 daily returns one is flagged iff its abnormal
\* return exceeds both 2.0 and twice the standard deviation in absolute
\* value, both strictly; no return at index >= 10 is flagged.
C6_AbnormalThresholds ==
    /\ cfi_frame.exit = "complete"
           => AbnormalAsClaimed(cfi_frame, fraud_indicators.abnormal_returns)
    /\ ep_frame.exit = "complete"
           => AbnormalAsClaimed(ep_frame, response.fraud_indicators.abnormal_returns)

C6_Witness ==
    /\ cfi_frame.exit = "complete"
    /\ cfi_frame.abnormal_at # <<>>
    /\ \E i \in 0..(RecentWindow - 1) :
          /\ i \notin Range(cfi_frame.abnormal_at)
          /\ Abs(AbnormalOf(cfi_frame, i)) > ArFlag
    /\ Len(cfi_frame.daily_returns) > RecentWindow
    /\ Abs(AbnormalOf(cfi_frame, RecentWindow)) > 2 * cfi_frame.std_dev + ArFlag

\* the cumulative abnormal return a complete frame sums up, unrounded
FlaggedSum(frame) == AbnormalSum(frame, AbnormalDays(frame))

\* C7 as stated: the cumulative abnormal return of a report is the sum of
\* the abnormal returns of exactly the flagged days.
C7_Original ==
    /\ cfi_frame.exit = "complete"
           => fraud_indicators.cumulative_abnormal_return = FlaggedSum(cfi_frame)
    /\ ep_frame.exit = "complete"
           => response.fraud_indicators.cumulative_abnormal_return = FlaggedSum(ep_frame)
    /\ cfi_frame.exit = "too_few_returns"
           => fraud_indicators.cumulative_abnormal_return = 0

\* C7 as amended: it is that sum rounded to two decimals.
C7_RoundedFlaggedSum ==
    /\ cfi_frame.exit = "complete"
           => fraud_indicators.cumulative_abnormal_return
                  = Round2(FlaggedSum(cfi_frame))
    /\ ep_frame.exit = "complete"
           => response.fraud_indicators.cumulative_abnormal_return
                  = Round2(FlaggedSum(ep_frame))
    /\ cfi_frame.exit = "too_few_returns"
           => /\ fraud_indicators.cumulative_abnormal_return = 0
              /\ fraud_indicators.abnormal_returns = <<>>

C7_Witness ==
    /\ cfi_frame.exit = "complete"
    /\ Cardinality(AbnormalDays(cfi_frame)) >= 2
    /\ \E i \in 0..(RecentWindow - 1) :
          i \notin AbnormalDays(cfi_frame) /\ AbnormalOf(cfi_frame, i) # 0
    /\ fraud_indicators.cumulative_abnormal_return # 0
    /\ fraud_indicators.cumulative_abnormal_return # FlaggedSum(cfi_frame)

\* a spike and an abnormal return of the same date have their flag
InsiderFlagged(report) ==
    \A v \in 1..Len(report.volume_spikes), a \in 1..Len(report.abnormal_returns) :
        report.volume_spikes[v].date = report.abnormal_returns[a].date =>
            \E k \in 1..Len(report.red_flags) :
                /\ report.red_flags[k].kind = "insider_trading"
                /\ report.red_flags[k].date = report.volume_spikes[v].date

\* C8: in every report, a VolumeSpike and an AbnormalReturnEvent of the
\* same date string come with an "insider trading" red flag of that date.
C8_InsiderTradingFlag ==
    /\ CfiReport => InsiderFlagged(fraud_indicators)
    /\ EpReport => InsiderFlagged(response.fraud_indicators)

C8_Witness ==
    /\ CfiReport
    /\ Len(fraud_indicators.volume_spikes) >= 2
    /\ Len(fraud_indicators.abnormal_returns) >= 1
    /\ \E v \in 2..Len(fraud_indicators.volume_spikes) :
          fraud_indicators.volume_spikes[v].date
              = fraud_indicators.abnormal_returns[1].date
    /\ HasFlag(fraud_indicators.red_flags, "insider_trading")

\* the "multiple volume spikes" flag is there iff the spikes are 3 or more
ManySpikesFlagged(report) ==
    Len(report.volume_spikes) >= ManySpikes
        <=> HasFlag(report.red_flags, "multiple_spikes")

\* C9: every report that lists 3 or more volume spikes carries the
\* "multiple volume spikes" red flag, and no report with fewer does.
C9_ManySpikesFlag ==
    /\ CfiReport => ManySpikesFlagged(fraud_indicators)
    /\ EpReport => ManySpikesFlagged(response.fraud_indicators)

\* the "high CAR" flag is there iff the report's value exceeds 10.0
HighCarFlagged(report) ==
    HasFlag(report.red_flags, "high_car")
        <=> Abs(report.cumulative_abnormal_return) > CarHigh

\* C10 as stated: a report carries the "high CAR" red flag iff the
\* absolute value of its cumulative abnormal return exceeds 10.0.
C10_Original ==
    /\ CfiReport => HighCarFlagged(fraud_indicators)
    /\ EpReport => HighCarFlagged(response.fraud_indicators)

\* C10 as amended: iff the sum of the flagged abnormal returns, before it
\* is rounded to the two decimals of the report, exceeds 10.0.
C10_UnroundedCarFlag ==
    /\ cfi_frame.exit = "complete" =>
           (HasFlag(fraud_indicators.red_flags, "high_car")
               <=> Abs(FlaggedSum(cfi_frame)) > CarHigh)
    /\ ep_frame.exit = "complete" =>
           (HasFlag(response.fraud_indicators.red_flags, "high_car")
               <=> Abs(FlaggedSum(ep_frame)) > CarHigh)
    /\ cfi_frame.exit = "too_few_returns" =>
           ~HasFlag(fraud_indicators.red_flags, "high_car")

C10_Witness ==
    /\ cfi_frame.exit = "complete"
    /\ HasFlag(fraud_indicators.red_flags, "high_car")
    /\ fraud_indicators.cumulative_abnormal_return = CarHigh
    /\ FlaggedSum(cfi_frame) > CarHigh

\* the red flags of one kind, in the order of the report
FlagsOf(red_flags, kind) == SelectSeq(red_flags, LAMBDA f : f.kind = kind)

\* the per-day volume flags of a report are those of its spikes at index
\* < 5, one each, in order, with the date and the ratio (one decimal) of
\* the row
VolumeFlagsAsClaimed(frame, report) ==
    LET recent == SelectSeq(frame.spike_at, LAMBDA i : i < BaselineSkip)
        flags  == FlagsOf(report.red_flags, "volume_spike")
    IN  /\ Len(flags) = Len(recent)
        /\ \A k \in 1..Len(recent) :
              /\ "date" \in DOMAIN RowAt(recent[k])
                     => flags[k].date = RowAt(recent[k]).date
              /\ flags[k].ratio =
                     Round1(Tvr(VolumeOf(RowAt(recent[k])).val, frame.avg_volume))

\* the regular volume on every row but the most recent, which has 5,200,000
ExampleVolumes ==
    /\ NDays >= MinDays
    /\ HasVolume(RowAt(0)) /\ RowAt(0).volume = VolTimes52
    /\ \A i \in 1..(NDays - 1) :
          HasVolume(RowAt(i)) /\ RowAt(i).volume = VolRegular

\* one HIGH spike of ratio 5.2 at the date of row 0 and one volume flag
ExampleReport(report) ==
    /\ Len(report.volume_spikes) = 1
    /\ report.volume_spikes[1].severity = "HIGH"
    /\ report.volume_spikes[1].tvr = 5200
    /\ report.volume_spikes[1].date = Get(RowAt(0), "date", "Unknown")
    /\ Len(FlagsOf(report.red_flags, "volume_spike")) = 1
    /\ FlagsOf(report.red_flags, "volume_spike")[1].ratio = 5200
    /\ ~HasFlag(report.red_flags, "multiple_spikes")

\* C11: a VolumeSpike at index < 5 appends exactly one per-day red flag
\* with the date and the ratio of its row, a VolumeSpike at index 5..9
\* appends none; with the regular volume everywhere but 5,200,000 on row 0
\* the report has one spike, HIGH, at the date of row 0, and one such flag.
C11_RecentSpikeFlags ==
    /\ CfiReport => VolumeFlagsAsClaimed(cfi_frame, fraud_indicators)
    /\ EpReport => VolumeFlagsAsClaimed(ep_frame, response.fraud_indicators)
    /\ CfiReport /\ ExampleVolumes => ExampleReport(fraud_indicators)
    /\ EpReport /\ ExampleVolumes => ExampleReport(response.fraud_indicators)

C11_Witness ==
    /\ NDays = 25
    /\ ExampleVolumes
    /\ edited = {<<0, "volume">>}
    /\ CfiReport
    /\ EpReport
    /\ Len(fraud_indicators.red_flags) = 1
    /\ fraud_indicators.red_flags[1].date = DateLabel[1]
    /\ cfi_frame.avg_volume = 1000000 * 100

\* every row has the same positive volume, but row k, which has m times it
OneDayTimes(k, m) ==
    /\ NDays >= MinDays
    /\ VolumeParses(NDays - 1)
    /\ LET v == VolumeOf(RowAt(NDays - 1)).val
       IN  /\ v > 0
           /\ \A i \in 0..(NDays - 1) :
                 /\ VolumeParses(i)
                 /\ VolumeOf(RowAt(i)).val = IF i = k THEN m * v ELSE v

\* the report lists one spike, at the date of row k, of the given severity
OneSpike(report, k, severity) ==
    /\ Len(report.volume_spikes) = 1
    /\ report.volume_spikes[1].date = Get(RowAt(k), "date", "Unknown")
    /\ report.volume_spikes[1].severity = severity

AllVolumesEqual ==
    /\ NDays >= MinDays
    /\ \A i \in 0..(NDays - 1) :
          /\ VolumeParses(i)
          /\ VolumeOf(RowAt(i)).val = VolumeOf(RowAt(0)).val
          /\ VolumeOf(RowAt(i)).val # 0

\* no spike and no red flag that is about volume
NoVolumeFinding(report) ==
    /\ report.volume_spikes = <<>>
    /\ \A k \in 1..Len(report.red_flags) :
          report.red_flags[k].kind
              \notin {"volume_spike", "multiple_spikes", "insider_trading"}

\* C13: when at least 20 rows all have the same non-zero volume, the report
\* lists no VolumeSpike and no volume-related red flag.
C13_EqualVolumesNoSpike ==
    /\ CfiReport /\ AllVolumesEqual => NoVolumeFinding(fraud_indicators)
    /\ EpReport /\ AllVolumesEqual => NoVolumeFinding(response.fraud_indicators)

C13_Witness ==
    /\ AllVolumesEqual
    /\ CfiReport
    /\ EpReport
    /\ cfi_frame.avg_volume = VolumeOf(RowAt(0)).val * 100
    /\ fraud_indicators.volume_spikes = <<>>
    /\ fraud_indicators.red_flags # <<>>

\* the daily return of the pair (i, i + 1) of ReturnPairs
ReturnAt(i) == DailyReturn(CloseOf(RowAt(i)).val, CloseOf(RowAt(i + 1)).val)

\* the daily returns are all equal
FlatReturns ==
    /\ ReturnPairs # {}
    /\ LET first == CHOOSE i \in ReturnPairs : TRUE
       IN  \A i \in ReturnPairs : ReturnAt(i) = ReturnAt(first)

\* no abnormal return, no cumulative abnormal return, no flag about them
NoReturnFinding(report) ==
    /\ report.abnormal_returns = <<>>
    /\ report.cumulative_abnormal_return = 0
    /\ \A k \in 1..Len(report.red_flags) :
          report.red_flags[k].kind \notin {"abnormal", "high_car", "insider_trading"}

\* C14: when the daily returns are all equal, the report lists no
\* AbnormalReturnEvent, its cumulative abnormal return is 0 and it has no
\* abnormal-return and no high-CAR red flag.
C14_FlatReturnsNoEvent ==
    /\ CfiReport /\ FlatReturns => NoReturnFinding(fraud_indicators)
    /\ EpReport /\ FlatReturns => NoReturnFinding(response.fraud_indicators)

C14_Witness ==
    /\ FlatReturns
    /\ cfi_frame.exit = "complete"
    /\ EpReport
    /\ cfi_frame.std_dev = 0
    /\ Len(cfi_frame.daily_returns) = MaxDays - 1
    /\ fraud_indicators.abnormal_returns = <<>>
    /\ fraud_indicators.red_flags # <<>>

\* the pairs of a set from index i on, without the k lowest of them
RECURSIVE WithoutLowest(_, _, _)
WithoutLowest(pairs, k, i) ==
    IF k = 0 \/ i >= NDays THEN {j \in pairs : j >= i}
    ELSE WithoutLowest(pairs, IF i \in pairs THEN k - 1 ELSE k, i + 1)

\* the pairs whose return has at least 5 returns before it in the list
OlderPairs == WithoutLowest(ReturnPairs, BaselineSkip, 0)

\* the sum of the values r[i] (less m, squared if sq) of a set of pairs
RECURSIVE SumOver(_, _, _, _)
SumOver(r, pairs, m, sq) ==
    IF pairs = {} THEN 0
    ELSE LET i == CHOOSE p \in pairs : TRUE
             d == r[i] - m
         IN  (IF sq THEN d * d ELSE d) + SumOver(r, pairs \ {i}, m, sq)

\* the mean of the returns r of a set of pairs
MeanOver(r, pairs) == FDiv(SumOver(r, pairs, 0, FALSE), Cardinality(pairs), 0)

\* their population standard deviation, m their mean
DeviationOver(r, pairs, m) ==
    Sqrt(FDiv(SumOver(r, pairs, m, TRUE), Cardinality(pairs), 0))

\* C15: the expected return is the mean, and the standard deviation the
\* population standard deviation, of the returns at index >= 5 of the list
\* of returns only (so neither depends on the 5 most recent returns), and
\* these are at least 5 returns.
C15_OlderReturnsOnly ==
    cfi_frame.exit = "complete" \/ ep_frame.exit = "complete" =>
        LET older     == OlderPairs
            r         == [i \in older |-> ReturnAt(i)]
            expected  == MeanOver(r, older)
            deviation == DeviationOver(r, older, expected)
        IN  /\ Cardinality(older) >= BaselineSkip
            /\ cfi_frame.exit = "complete" =>
                   /\ cfi_frame.expected_return = expected
                   /\ cfi_frame.std_dev = deviation
            /\ ep_frame.exit = "complete" =>
                   /\ ep_frame.expected_return = expected
                   /\ ep_frame.std_dev = deviation

C15_Witness ==
    /\ cfi_frame.exit = "complete"
    /\ ep_frame.exit = "complete"
    /\ cfi_frame.expected_return # 0
    /\ cfi_frame.std_dev > 0
    /\ cfi_frame.daily_returns[1] > ArFlag
    /\ cfi_frame.daily_returns[BaselineSkip] # cfi_frame.expected_return
    /\ 0 \in ReturnPairs \ OlderPairs

\* every abnormal return has the severity of its value, and the abnormal
\* flags of a report are those of its flagged returns at index < 5, one
\* each, in order, with the direction of the value
AbnormalFlagsAsClaimed(frame, report) ==
    LET at     == frame.abnormal_at
        recent == SelectSeq(at, LAMBDA i : i < BaselineSkip)
        flags  == FlagsOf(report.red_flags, "abnormal")
    IN  /\ \A k \in 1..Len(at) :
              report.abnormal_returns[k].severity =
                  IF Abs(AbnormalOf(frame, at[k])) > ArHigh THEN "HIGH" ELSE "MEDIUM"
        /\ Len(flags) = Len(recent)
        /\ \A k \in 1..Len(recent) :
              /\ AbnormalOf(frame, recent[k]) > 0 => flags[k].direction = "gain"
              /\ AbnormalOf(frame, recent[k]) < 0 => flags[k].direction = "drop"

\* C16: an AbnormalReturnEvent is HIGH if |abnormal| > 5.0 and MEDIUM
\* otherwise; a flagged return at index < 5 appends exactly one red flag,
\* of direction "gain" when abnormal > 0 and "drop" when abnormal < 0; a
\* flagged return at index 5..9 appends none.
C16_AbnormalSeverityAndFlags ==
    /\ cfi_frame.exit = "complete"
           => AbnormalFlagsAsClaimed(cfi_frame, fraud_indicators)
    /\ ep_frame.exit = "complete"
           => AbnormalFlagsAsClaimed(ep_frame, response.fraud_indicators)

C16_Witness ==
    /\ cfi_frame.exit = "complete"
    /\ ep_frame.exit = "complete"
    /\ LET events == fraud_indicators.abnormal_returns
           flags  == FlagsOf(fraud_indicators.red_flags, "abnormal")
       IN  /\ \E k \in 1..Len(flags) : flags[k].direction = "gain"
           /\ \E k \in 1..Len(flags) : flags[k].direction = "drop"
           /\ \E k \in 1..Len(events) : events[k].severity = "HIGH"
           /\ \E k \in 1..Len(events) : events[k].severity = "MEDIUM"
           /\ Len(events) > Len(flags)

\* the spikes (by position) whose date is the date of an abnormal return
MatchedSpikes(report) ==
    {v \in 1..Len(report.volume_spikes) :
        \E a \in 1..Len(report.abnormal_returns) :
            report.volume_spikes[v].date = report.abnormal_returns[a].date}

\* one "insider trading" flag for each of them
OneFlagPerMatchedSpike(report) ==
    Len(FlagsOf(report.red_flags, "insider_trading"))
        = Cardinality(MatchedSpikes(report))

\* C17: the number of "insider trading" red flags of a report is the
\* number of VolumeSpikes whose date is the date of at least one
\* AbnormalReturnEvent: a spike contributes at most one flag, however many
\* abnormal returns have its date.
C17_OneInsiderFlagPerSpike ==
    /\ CfiReport => OneFlagPerMatchedSpike(fraud_indicators)
    /\ EpReport => OneFlagPerMatchedSpike(response.fraud_indicators)

C17_Witness ==
    /\ CfiReport
    /\ EpReport
    /\ Cardinality(MatchedSpikes(fraud_indicators)) = 2
    /\ Len(FlagsOf(fraud_indicators.red_flags, "insider_trading")) = 2
    /\ \E a, b \in 1..Len(fraud_indicators.abnormal_returns) :
          /\ a # b
          /\ fraud_indicators.abnormal_returns[a].date
                 = fraud_indicators.abnormal_returns[b].date
          /\ \E v \in MatchedSpikes(fraud_indicators) :
                 fraud_indicators.volume_spikes[v].date
                     = fraud_indicators.abnormal_returns[a].date

\* the rows at index >= 5 whose volume parses as a non-negative number
NonNegativeBaselineDays ==
    {i \in BaselineDays : VolumeOf(RowAt(i)).val >= 0}

\* the baseline and the count of a frame are those of the non-negative
\* volumes
NonNegativeBaseline(frame) ==
    /\ frame.exit \in {"too_few_volumes", "too_few_returns", "complete"}
           => Len(frame.volumes) = Cardinality(NonNegativeBaselineDays)
    /\ frame.exit \in {"too_few_returns", "complete"}
           => frame.avg_volume =
                  FDiv(VolumeSum(NonNegativeBaselineDays),
                       Cardinality(NonNegativeBaselineDays), 2)

\* C18: only the volumes that parse as non-negative numbers enter the
\* baseline: a row at index >= 5 whose volume parses as a negative number
\* changes neither the baseline nor the count that is compared with 10.
C18_NonNegativeBaseline ==
    /\ NonNegativeBaseline(cfi_frame)
    /\ NonNegativeBaseline(ep_frame)
    /\ Cardinality(NonNegativeBaselineDays) < MinSamples
           => CfiUnavailable /\ EpUnavailable

\* the rows among the first 10 whose volume is no number
UnparseableDays ==
    {i \in 0..(Min(RecentWindow, NDays) - 1) : ~VolumeParses(i)}

\* a row whose volume is no number is not tested, every other row of the
\* window is tested as it is without such a row; a close that is no number
\* only takes away the returns of the pairs it is part of
SkippedSilently(frame) ==
    /\ frame.avg_volume # 0 =>
           /\ Range(frame.spike_at) \cap UnparseableDays = {}
           /\ \A i \in 0..(Min(RecentWindow, NDays) - 1) \ UnparseableDays :
                  i \in Range(frame.spike_at)
                      <=> Tvr(VolumeOf(RowAt(i)).val, frame.avg_volume) > TvrSpike
    /\ Len(frame.daily_returns) = Cardinality(ReturnPairs)

\* C19: a volume or a close that is no number never makes the engine fail:
\* on at least 20 rows it returns a report (partial or not) or Unavailable
\* and no exception leaves it; a volume that is no number at an
\* index 0..9 only takes that row out of the spike test.
C19_UnparseableSkipped ==
    NDays >= MinDays =>
        /\ fraud_indicators.kind \in {"NotCalled", "None", "report"}
        /\ EpUnavailable \/ EpReport
        /\ CfiReport => SkippedSilently(cfi_frame)
        /\ EpReport => SkippedSilently(ep_frame)

C19_Witness ==
    /\ cfi_frame.exit = "complete"
    /\ EpReport
    /\ HasVolume(RowAt(0))
    /\ 0 \in UnparseableDays
    /\ ~CloseOf(RowAt(NDays - 1)).ok
    /\ cfi_frame.spike_at = <<RecentWindow - 1>>
    /\ ep_frame.spike_at = <<RecentWindow - 1>>

SameReport(report, other) ==
    /\ report.volume_spikes = other.volume_spikes
    /\ report.abnormal_returns = other.abnormal_returns
    /\ report.cumulative_abnormal_return = other.cumulative_abnormal_return
    /\ report.red_flags = other.red_flags

\* both copies have been given the table, the endpoint with a symbol
BothAnswered ==
    /\ fraud_indicators # NotCalled
    /\ response # NotCalled
    /\ ep_frame.exit # "no_symbol"

\* on every table for which both copies produce a report, the volume
\* spikes, the abnormal returns, the cumulative abnormal return and the red
\* flags of the two reports are equal
SameReportsWhenBoth ==
    BothAnswered /\ CfiReport /\ EpReport
        => SameReport(fraud_indicators, response.fraud_indicators)

\* C21: the copy in calculate_fraud_indicators and the copy in the
\* fraud-detection endpoint compute the same report: when both produce a
\* report the four fields are equal, and a table for which one copy is
\* Unavailable is Unavailable for the other.
C21_SameEngine ==
    BothAnswered =>
        /\ CfiUnavailable <=> EpUnavailable
        /\ CfiReport /\ EpReport
               => SameReport(fraud_indicators, response.fraud_indicators)

\* the table on which the copies part: fewer than 10 daily returns, where
\* calculate_fraud_indicators returns the partial report and the endpoint
\* answers 400
C21_Witness ==
    /\ BothAnswered
    /\ cfi_frame.exit = "too_few_returns"
    /\ ep_frame.exit = "too_few_returns"
    /\ CfiReport
    /\ EpUnavailable

\* the 'today' indices of the adjacent pairs that give a daily return, in
\* the order of the returns list
PairList ==
    SelectSeq([k \in 1..(NDays - 1) |-> k - 1], LAMBDA i : i \in ReturnPairs)

\* the events of a report carry the date of the 'today' row of their pair,
\* and the report has one "abnormal" flag for each event whose 'today' row
\* has an index < 5
DatesOfPairs(frame, report) ==
    /\ \A k \in 1..Len(report.abnormal_returns) :
           report.abnormal_returns[k].date
               = Get(RowAt(PairList[frame.abnormal_at[k] + 1]), "date", "Unknown")
    /\ Len(FlagsOf(report.red_flags, "abnormal"))
           = Cardinality({k \in 1..Len(frame.abnormal_at) :
                             PairList[frame.abnormal_at[k] + 1] < BaselineSkip})

\* C22: every AbnormalReturnEvent carries the date of the 'today'
\* observation of the adjacent pair whose return was flagged, also when an
\* earlier pair was skipped, and a flagged return adds a 'recent' red flag
\* exactly when that 'today' observation has an index < 5.
C22_DateOfFlaggedPair ==
    /\ cfi_frame.exit = "complete" => DatesOfPairs(cfi_frame, fraud_indicators)
    /\ ep_frame.exit = "complete"
           => DatesOfPairs(ep_frame, response.fraud_indicators)

\* the table on which the date is that of another row: the newest close is
\* missing, so that the return of the pair (5, 6) is the fifth of the list
C22_Witness ==
    /\ cfi_frame.exit = "complete"
    /\ ep_frame.exit = "complete"
    /\ 0 \notin ReturnPairs
    /\ cfi_frame.abnormal_at = <<BaselineSkip - 2, BaselineSkip - 1>>
    /\ PairList[BaselineSkip] = BaselineSkip
    /\ fraud_indicators.abnormal_returns[2].date = DateLabel[BaselineSkip]
    /\ response.fraud_indicators.abnormal_returns[2].date = DateLabel[BaselineSkip]
    /\ Len(FlagsOf(fraud_indicators.red_flags, "abnormal")) = 2

\* the spikes of a report whose row is also the 'today' row of the pair of
\* one of its abnormal returns
SameDaySpikes(frame) ==
    {v \in 1..Len(frame.spike_at) :
        \E k \in 1..Len(frame.abnormal_at) :
            PairList[frame.abnormal_at[k] + 1] = frame.spike_at[v]}

\* every "insider trading" flag of the report is that of a spike and an
\* abnormal return of one and the same row
InsiderOfOneDay(frame, report) ==
    Len(FlagsOf(report.red_flags, "insider_trading"))
        <= Cardinality(SameDaySpikes(frame))

\* C23: an "insider trading" red flag is emitted only when a VolumeSpike
\* and an AbnormalReturnEvent stem from the same observation index; a spike
\* and an abnormal return of two different observations, for example with
\* duplicate date labels, never produce it.
C23_InsiderSameObservation ==
    /\ cfi_frame.exit = "complete" => InsiderOfOneDay(cfi_frame, fraud_indicators)
    /\ ep_frame.exit = "complete"
           => InsiderOfOneDay(ep_frame, response.fraud_indicators)

\* rows 3 and 4 under one date label, no pair skipped: the spike of row 3
\* and the abnormal return of row 4 give a flag
C23_Witness ==
    /\ cfi_frame.exit = "complete"
    /\ ep_frame.exit = "complete"
    /\ Cardinality(ReturnPairs) = NDays - 1
    /\ RowAt(BaselineSkip - 1).date = RowAt(BaselineSkip - 2).date
    /\ cfi_frame.spike_at = <<3, 4, 5>>
    /\ cfi_frame.abnormal_at = <<BaselineSkip - 1, BaselineSkip>>
    /\ SameDaySpikes(cfi_frame) = {2, 3}
    /\ Len(FlagsOf(fraud_indicators.red_flags, "insider_trading")) = 3
    /\ Len(FlagsOf(response.fraud_indicators.red_flags, "insider_trading")) = 3

\* at least 10 baseline volumes, and every one of them parses to 0
ZeroBaseline ==
    /\ Cardinality(BaselineDays) >= MinSamples
    /\ \A i \in BaselineDays : VolumeOf(RowAt(i)).val = 0

\* a frame and its report after a division by zero on every tested row: no
\* spike and no volume flag, the returns analysed as on any other table
ZeroBaselineSkipped(frame, report) ==
    /\ frame.avg_volume = 0
    /\ frame.spike_at = <<>>
    /\ NoVolumeFinding(report)
    /\ frame.exit = "complete" =>
          /\ AbnormalAsClaimed(frame, report.abnormal_returns)
          /\ HasFlag(report.red_flags, "high_car")
                 <=> Abs(frame.cumulative_ar) > CarHigh

\* C24: when every baseline volume parses to 0 the baseline is 0 and each
\* tested day is skipped: the report lists no VolumeSpike and no volume red
\* flag, no division by zero escapes (a report is returned), and the
\* abnormal returns and the aggregate flags are computed as usual.
C24_ZeroBaselineSkipped ==
    /\ fraud_indicators # NotCalled /\ NDays >= MinDays /\ ZeroBaseline
           => /\ CfiReport
              /\ ZeroBaselineSkipped(cfi_frame, fraud_indicators)
    /\ ep_frame.exit \in {"too_few_returns", "complete"} /\ ZeroBaseline
           => ep_frame.avg_volume = 0 /\ ep_frame.spike_at = <<>>
    /\ ep_frame.exit = "complete" /\ ZeroBaseline
           => /\ EpReport
              /\ ZeroBaselineSkipped(ep_frame, response.fraud_indicators)

\* a silent table whose newest row has 5.2 million shares and a close 10 per
\* cent up: the volume is not reported, the return is
C24_Witness ==
    /\ ZeroBaseline
    /\ CfiReport
    /\ EpReport
    /\ HasVolume(RowAt(0))
    /\ RowAt(0).volume = VolTimes52
    /\ RowAt(BaselineSkip).volume = VolZero
    /\ fraud_indicators.volume_spikes = <<>>
    /\ response.fraud_indicators.volume_spikes = <<>>
    /\ Len(fraud_indicators.abnormal_returns) = 1
    /\ HasFlag(fraud_indicators.red_flags, "high_car")
    /\ HasFlag(response.fraud_indicators.red_flags, "high_car")

\* the rows whose volume is divided by the baseline: those among the first
\* 10 whose volume parses
TestedDays == {i \in 0..(Min(RecentWindow, NDays) - 1) : VolumeParses(i)}

\* the baseline of a frame is made of the rows of the set days
BaselineOf(frame, days) ==
    frame.exit \in {"too_few_returns", "complete"} =>
        /\ Len(frame.volumes) = Cardinality(days)
        /\ frame.avg_volume = FDiv(VolumeSum(days), Cardinality(days), 2)

\* C25 as stated: no observation whose volume is tested for a spike
\* contributes to the baseline it is tested against: the tested indices and
\* the baseline indices are disjoint.
C25_Original ==
    /\ BaselineOf(cfi_frame, BaselineDays \ TestedDays)
    /\ BaselineOf(ep_frame, BaselineDays \ TestedDays)

\* C25 as amended: of the tested rows, those at index 0..4 stay out of the
\* baseline and those at index 5..9 are part of it: the baseline is made of
\* the rows that are not tested and of the tested rows at index >= 5.
C25_TestedOlderRowsInBaseline ==
    LET days == (BaselineDays \ TestedDays)
                    \cup {i \in TestedDays : i >= BaselineSkip}
    IN  /\ BaselineOf(cfi_frame, days)
        /\ BaselineOf(ep_frame, days)

\* 5.2 times the regular volume on row 9 raises the baseline that row 9 is
\* tested against to 1,280,000: its ratio is 4.06
C25_Witness ==
    /\ CfiReport
    /\ EpReport
    /\ cfi_frame.spike_at = <<RecentWindow - 1>>
    /\ RecentWindow - 1 \in TestedDays \cap BaselineDays
    /\ VolumeOf(RowAt(RecentWindow - 1)).val = 5200000
    /\ cfi_frame.avg_volume = 1280000 * 100
    /\ ep_frame.avg_volume = 1280000 * 100
    /\ fraud_indicators.volume_spikes[1].tvr = 4060
    /\ fraud_indicators.volume_spikes[1].severity = "MEDIUM"

\* C26: in every successful response of the fraud-detection endpoint the
\* risk_level is "High" if and only if the list of red flags is not empty,
\* and "Low" otherwise, whatever the severities of the spikes and of the
\* abnormal returns it lists.
C26_RiskLevelFromFlags ==
    EpReport =>
        /\ response.fraud_indicators.risk_level \in {"High", "Low"}
        /\ response.fraud_indicators.risk_level = "High"
               <=> response.fraud_indicators.red_flags # <<>>

\* a response that lists an abnormal return of severity HIGH on row 9 and
\* has the risk_level "Low"
C26_Witness ==
    /\ EpReport
    /\ response.fraud_indicators.risk_level = "Low"
    /\ ep_frame.abnormal_at = <<RecentWindow - 1>>
    /\ response.fraud_indicators.abnormal_returns[1].severity = "HIGH"
    /\ response.fraud_indicators.red_flags = <<>>

\* -------------------------------------------------------------------------
\* The claims about the callers of the engine (AgentsSpec).
\* -------------------------------------------------------------------------

\* the request served was one of the fraud-analysis route, with a symbol
FaServed ==
    /\ agent_response # NotCalled
    /\ agent_frame.route = "fraud-analysis"
    /\ agent_frame.exit # "no_symbol"

\* the status with which the detection endpoint answers for the table
DetectionStatus ==
    fraud_detection_agent_endpoint("NVDA", historical_data).ret.status

\* C27: the fraud-analysis endpoint invokes the LLM only after the
\* detection endpoint answered with status 200; on any other status it
\* returns a 400 error and makes no LLM call.
C27_LlmAfterDetection ==
    FaServed =>
        /\ agent_frame.status_code = DetectionStatus
        /\ agent_frame.llm_called => agent_frame.status_code = 200
        /\ agent_frame.status_code # 200 =>
              /\ agent_response.status = 400
              /\ ~agent_frame.llm_called

\* a table of 19 rows: the detection endpoint answers 400, and so does the
\* fraud-analysis endpoint, without a call of the LLM
C27_Witness ==
    /\ FaServed
    /\ NDays = MinDays - 1
    /\ agent_frame.status_code = 400
    /\ agent_response.status = 400
    /\ agent_response.error = "Could not fetch fraud indicators"
    /\ ~agent_frame.llm_called

\* C28: whenever the detection endpoint answers 200 and the LLM call
\* succeeds, the fraud-analysis endpoint returns 200 with a
\* fraud_risk_assessment, whatever the number of volume spikes and abnormal
\* returns in the report.
C28_AnalysisReturned ==
    FaServed /\ agent_frame.status_code = 200 /\ agent_frame.completion
        => /\ agent_response.status = 200
           /\ "fraud_risk_assessment" \in DOMAIN agent_response

\* a table with a burst of volume: the detection endpoint reports three
\* spikes, the summary fails on the volume of the first and the response is
\* a 500 error, the LLM not called
C28_Witness ==
    /\ FaServed
    /\ agent_frame.status_code = 200
    /\ agent_frame.completion
    /\ Len(fraud_detection_agent_endpoint("NVDA", historical_data)
              .ret.fraud_indicators.volume_spikes) = 3
    /\ agent_frame.exit = "format_error"
    /\ agent_response.status = 500
    /\ ~agent_frame.llm_called

\* the request served was one of the orchestrator, with a symbol, and
\* fetch_stock_data delivered the stock data
MaoServed ==
    /\ agent_response # NotCalled
    /\ agent_frame.route = "full-analysis"
    /\ agent_frame.stock_symbol # ""
    /\ agent_frame.stock_data

\* the keys of the analysis map
AnalysisKeys ==
    {"technical_analysis", "fundamental_analysis", "company_info",
     "fraud_detection", "fraud_analysis", "summary", "executive_summary",
     "detailed_analysis", "investment_recommendation", "analyst_synthesis",
     "meta_analysis"}

\* C29: once the symbol is present and the stock data was fetched, the
\* orchestrator invokes all 11 agents in the fixed order technical,
\* fundamental, company, fraud detection, fraud analysis, then the six
\* summary agents; the failure of one never prevents the later ones, and the
\* analysis map always has all 11 entries.
C29_AllAgentsInOrder ==
    MaoServed =>
        /\ agent_frame.invoked = Agents
        /\ SubSeq(agent_frame.invoked, 1, 5)
               = <<"technical-analysis", "fundamental-analysis", "company-name",
                   "fraud-detection", "fraud-analysis">>
        /\ agent_response.status = 200
        /\ DOMAIN agent_response.analysis = AnalysisKeys
        /\ Cardinality(AnalysisKeys) = agent_response.agents_deployed
        /\ \A route \in Range(Agents) :
              route \in agent_frame.raising
                  <=> agent_response.analysis[AnalysisKey[route]] = [error |-> "raised"]

\* the first agent raises: its entry is the error, the fraud-detection
\* agent and the last agent were invoked and have answered
C29_Witness ==
    /\ MaoServed
    /\ agent_frame.raising = {"technical-analysis"}
    /\ agent_response.analysis["technical_analysis"] = [error |-> "raised"]
    /\ "fraud_indicators" \in DOMAIN agent_response.analysis["fraud_detection"]
    /\ agent_response.analysis["meta_analysis"].agent = "meta-analysis"
    /\ Len(agent_frame.invoked) = 11

\* main has passed the statement "if fraud_indicators:"
MainPassed == main_frame.exit \in {"analysed", "unavailable"}

\* C30: in main the LLM fraud-risk analysis is requested only when
\* calculate_fraud_indicators returned a report; when it is Unavailable,
\* fraud_risk_analysis stays unset (None) and the run goes on; every report
\* that is returned, an empty one included, leads to the request.
C30_LlmOnlyWithReport ==
    MainPassed =>
        /\ main_frame.requested <=> CfiReport
        /\ fraud_indicators = None =>
              /\ fraud_risk_analysis = None
              /\ main_frame.exit = "unavailable"
        /\ CfiReport => main_frame.exit = "analysed"
        /\ fraud_risk_analysis # None => main_frame.requested

\* a regular table: the report is empty and the analysis was requested
C30_Witness ==
    /\ MainPassed
    /\ CfiReport
    /\ fraud_indicators.volume_spikes = <<>>
    /\ fraud_indicators.abnormal_returns = <<>>
    /\ fraud_indicators.red_flags = <<>>
    /\ main_frame.requested
    /\ fraud_risk_analysis = [kind |-> "text"]

====
